---- MODULE Spec2Model ----
(***************************************************************************)
(* A model of the rmqtt broker kernel: the plugin manager's lifecycle      *)
(* state machine (rmqtt/src/plugin.rs), the HTTP and JWT auth backends'    *)
(* hook handlers and publish ACL cache (rmqtt-plugins/rmqtt-auth-http,     *)
(* rmqtt-auth-jwt), the cluster gRPC layer (rmqtt/src/grpc.rs), the hook   *)
(* bus contract (rmqtt/src/broker/hook.rs), the cluster handler            *)
(* (rmqtt-plugins/rmqtt-cluster-raft) and the session storage plugin       *)
(* (rmqtt-plugins/rmqtt-session-storage).                                  *)
(***************************************************************************)
EXTENDS Integers, Sequences, FiniteSets, TLC

VARIABLES
    plugins,      \* Manager.plugins: name -> Entry, or NoEntry
    cfgSource,    \* the config source read_config reads, per plugin name
    lastOp,       \* record of the last Manager call and the plugin methods it called
    now,          \* timestamp_millis()
    caches,       \* AuthHandler.caches: Id -> (TopicName -> (Permission, expire))
    online,       \* sessions between connect and their ClientDisconnected hook
    checks,       \* publish ACL checks suspended in acl(), each with the unusable entry it found
    issued,       \* number of HTTP ACL requests sent so far
    lastCheck,    \* the MessagePublishCheckAcl handler that returned in the last step, if any
    lastSet,      \* the arguments of the latest cache_set per (Id, topic) since cache_remove
    authCall,     \* one auth backend hook call run on its own: its arguments, then its result
    active_tasks, \* GrpcClient.active_tasks of the client of each peer node
    tasks,        \* send_message / notify calls made on the clients directly
    broadcast,    \* the MessageBroadcaster in use, with the call made on it
    senders,      \* the broadcaster's futures, one per peer, in grpc_clients order
    completed,    \* positions of the senders that returned, in the order they returned
    mailed,       \* the requests the broadcast put into each peer's duplex mailbox
    returned,     \* what join_all / select_ok returned
    discarded,    \* dropped senders whose peer replied afterwards
    served,       \* the last request the gRPC server handled
    applied,      \* one pure function applied on its own: its argument, then its result
    handlers,     \* the hook registry: the entries {type, priority, handler} as registered
    dispatched,   \* the last hook dispatch: the handlers invoked, their returns, the result
    storage_db,   \* the persisted map and list records of the session storage, by name
    stored_session_infos, \* StoragePlugin.stored_session_infos: client id -> loaded records
    rebuild_rx,   \* the items in the rebuild channel, oldest first
    exec_queue,   \* the tasks spawned on SESSION_REBUILD_EXEC that have not run
    shared,       \* the shared session table: client id -> session
    startup,      \* where the storage plugin's startup sequence stands
    failing,      \* the calls that return Err in the environment of this run
    boot_log,     \* what the startup sequence read and did so far
    spawned,      \* the write tasks the offline message handler spawned
    callers,      \* the concurrent Manager::start / Manager::stop calls on one entry
    slot_log,     \* what those calls did to the plugin so far
    raft_sessions, \* per session id, how far its disconnect / terminate hooks went
    raft_tasks,   \* the proposal tasks the cluster hook handler spawned
    raft_mailbox, \* the proposals the raft mailbox received, in order
    offline_call  \* the last call of the offline message handler

vars == <<plugins, cfgSource, lastOp, now, caches, online, checks, issued, lastCheck, lastSet,
          authCall, active_tasks, tasks, broadcast, senders, completed, mailed, returned,
          discarded, served, applied, handlers, dispatched, storage_db, stored_session_infos,
          rebuild_rx, exec_queue, shared, startup, failing, boot_log, spawned, offline_call,
          callers, slot_log, raft_sessions, raft_tasks, raft_mailbox>>
pluginVars == <<plugins, cfgSource, lastOp>>
aclVars == <<now, caches, online, checks, issued, lastCheck, lastSet>>
authVars == <<authCall>>
broadcastVars == <<broadcast, senders, completed, mailed, returned, discarded>>
grpcVars == <<active_tasks, tasks, broadcastVars, served>>
hookVars == <<handlers, dispatched>>
rebuildVars == <<stored_session_infos, rebuild_rx, exec_queue, shared, startup, failing,
                 boot_log>>
offlineVars == <<spawned, offline_call>>
storageVars == <<storage_db, rebuildVars, offlineVars>>
slotVars == <<callers, slot_log>>
raftVars == <<raft_sessions, raft_tasks, raft_mailbox>>
lateVars == <<slotVars, raftVars>>
extVars == <<applied, hookVars, storageVars, lateVars>>

(***************************************************************************)
(* Bounds                                                                  *)
(***************************************************************************)
MaxInitCalls == 2
MaxNow == 3
MaxRequests == 2
MaxTasks == 2
MaxHandlers == 3
MaxRuns == 2
MaxOffline == 3
MaxCallers == 3

(***************************************************************************)
(* Plugin manager: rmqtt/src/plugin.rs                                     *)
(***************************************************************************)
Names == {"p1"}
NoEntry == [absent |-> TRUE]
NoOp == [op |-> "none"]

\* The Plugin implementations a constructor passed to register may build.
\* DynPlugin stands for an arbitrary implementation of the Plugin trait.
Kinds == {"AuthHttpPlugin", "AuthJwtPlugin", "RetainerPlugin", "StoragePlugin", "DynPlugin"}

ConfigValues == {"cfgA", "cfgB"}
Invalid == "invalid"
NoCfg == "nocfg"

\* read_config: the deserialized config, or an error when the source is invalid.
read_config(src) == IF src = Invalid THEN [ok |-> FALSE, cfg |-> NoCfg]
                    ELSE [ok |-> TRUE, cfg |-> src]

\* Results the constructor (XxxPlugin::new) can return, given the config source.
NewOutcomes(kind, src) ==
    IF kind = "DynPlugin" THEN {"ok", "err"}
    ELSE IF read_config(src).ok THEN {"ok", "err"} ELSE {"err"}

\* Results of Plugin::init.
InitOutcomes(kind) ==
    IF kind \in {"StoragePlugin", "DynPlugin"} THEN {"ok", "err"} ELSE {"ok"}

\* Results of Plugin::start.
StartOutcomes(kind) ==
    IF kind = "DynPlugin" THEN {"ok", "err"} ELSE {"ok"}

\* Results of Plugin::stop: Ok(true), Ok(false) or Err.
StopOutcomes(kind) ==
    CASE kind \in {"AuthHttpPlugin", "AuthJwtPlugin"} -> {"true"}
      [] kind \in {"RetainerPlugin", "StoragePlugin"} -> {"false"}
      [] OTHER -> {"true", "false", "err"}

\* load_config that clears the shared config before it validates the new one.
PluginLoadConfig_clears_first(kind, cfg, src, dynR) ==
    IF read_config(src).ok /\ kind # "StoragePlugin"
    THEN [ok |-> TRUE, cfg |-> read_config(src).cfg]
    ELSE [ok |-> FALSE, cfg |-> NoCfg]

\* Plugin::load_config on an instance holding cfg: the result and the config the
\* handlers read afterwards.
PluginLoadConfig(kind, cfg, src, dynR) ==
    CASE kind \in {"AuthHttpPlugin", "AuthJwtPlugin", "RetainerPlugin"} ->
            IF read_config(src).ok THEN [ok |-> TRUE, cfg |-> read_config(src).cfg]
            ELSE [ok |-> FALSE, cfg |-> cfg]
      [] kind = "StoragePlugin" -> [ok |-> FALSE, cfg |-> cfg]
      [] OTHER ->
            IF dynR = "ok" /\ read_config(src).ok
            THEN [ok |-> TRUE, cfg |-> read_config(src).cfg]
            ELSE [ok |-> FALSE, cfg |-> cfg]

\* struct Entry, with the instance's kind and config and two call counters.
NewEntry(kind, default_startup, immutable, cfg) ==
    [kind |-> kind, inited |-> default_startup, active |-> default_startup,
     immutable |-> immutable, plugin |-> default_startup, plugin_f |-> ~default_startup,
     cfg |-> cfg, ctorCalls |-> IF default_startup THEN 1 ELSE 0,
     initCalls |-> IF default_startup THEN 1 ELSE 0]

\* plugin_mut without take(): the deferred constructor stays in the entry.
plugin_mut_keeps_f(e, src, newR) ==
    IF e.plugin_f /\ e.ctorCalls < 3
    THEN IF newR # "ok"
         THEN [ok |-> FALSE, e |-> [e EXCEPT !.ctorCalls = @ + 1], calls |-> <<"new">>]
         ELSE [ok |-> TRUE,
               e |-> [e EXCEPT !.ctorCalls = @ + 1, !.plugin = TRUE,
                               !.cfg = read_config(src).cfg],
               calls |-> <<"new">>]
    ELSE [ok |-> e.plugin, e |-> e, calls |-> <<>>]

\* Entry::plugin_mut: run the deferred constructor if it is still held, then
\* hand out the instance.
plugin_mut(e, src, newR) ==
    LET taken == IF e.plugin_f
                 THEN [e EXCEPT !.plugin_f = FALSE, !.ctorCalls = @ + 1]
                 ELSE e
        calls == IF e.plugin_f THEN <<"new">> ELSE <<>>
    IN  IF e.plugin_f /\ newR # "ok"
        THEN [ok |-> FALSE, e |-> taken, calls |-> calls]
        ELSE LET e1 == IF e.plugin_f
                       THEN [taken EXCEPT !.plugin = TRUE, !.cfg = read_config(src).cfg]
                       ELSE taken
             IN  [ok |-> e1.plugin, e |-> e1, calls |-> calls]

\* get_mut without the immutable guard.
get_mut_unguarded(e) ==
    IF e = NoEntry THEN [ok |-> TRUE, some |-> FALSE] ELSE [ok |-> TRUE, some |-> TRUE]

\* Manager::get_mut: the entry's exclusive slot, refused for an immutable entry.
get_mut(e) ==
    IF e = NoEntry THEN [ok |-> TRUE, some |-> FALSE]
    ELSE IF e.immutable THEN [ok |-> FALSE, some |-> FALSE]
    ELSE [ok |-> TRUE, some |-> TRUE]

\* start that sets active without running init or start.
StartEntry_activates_only(e, src, newR, initR, startR) ==
    [ok |-> TRUE, e |-> [e EXCEPT !.active = TRUE], calls |-> <<>>]

\* The body of Manager::start on a mutable entry.
StartEntry(e, src, newR, initR, startR) ==
    LET pm1 == plugin_mut(e, src, newR)
        afterInit ==
            IF e.inited THEN [ok |-> TRUE, e |-> e, calls |-> <<>>]
            ELSE IF ~pm1.ok THEN [ok |-> FALSE, e |-> pm1.e, calls |-> pm1.calls]
            ELSE IF initR # "ok"
                 THEN [ok |-> FALSE, e |-> [pm1.e EXCEPT !.initCalls = @ + 1],
                       calls |-> Append(pm1.calls, "init")]
            ELSE [ok |-> TRUE,
                  e |-> [pm1.e EXCEPT !.initCalls = @ + 1, !.inited = TRUE],
                  calls |-> Append(pm1.calls, "init")]
    IN  IF ~afterInit.ok THEN afterInit
        ELSE IF afterInit.e.active THEN afterInit
        ELSE LET pm2 == plugin_mut(afterInit.e, src, newR)
                 calls2 == afterInit.calls \o pm2.calls
             IN  IF ~pm2.ok THEN [ok |-> FALSE, e |-> pm2.e, calls |-> calls2]
                 ELSE IF startR # "ok"
                      THEN [ok |-> FALSE, e |-> pm2.e, calls |-> Append(calls2, "start")]
                 ELSE [ok |-> TRUE, e |-> [pm2.e EXCEPT !.active = TRUE],
                       calls |-> Append(calls2, "start")]

\* stop that clears active whatever the plugin answered.
StopEntry_ignores_answer(e, src, newR, stopR) ==
    IF ~e.active THEN [ok |-> FALSE, e |-> e, calls |-> <<>>, ret |-> "err"]
    ELSE IF stopR = "err"
         THEN [ok |-> FALSE, e |-> e, calls |-> <<"stop">>, ret |-> "err"]
    ELSE [ok |-> TRUE, e |-> [e EXCEPT !.active = FALSE], calls |-> <<"stop">>,
          ret |-> stopR]

\* The body of Manager::stop on a mutable entry.
StopEntry(e, src, newR, stopR) ==
    IF ~e.active THEN [ok |-> FALSE, e |-> e, calls |-> <<>>, ret |-> "err"]
    ELSE LET pm == plugin_mut(e, src, newR)
         IN  IF ~pm.ok THEN [ok |-> FALSE, e |-> pm.e, calls |-> pm.calls, ret |-> "err"]
             ELSE IF stopR = "err"
                  THEN [ok |-> FALSE, e |-> pm.e, calls |-> Append(pm.calls, "stop"),
                        ret |-> "err"]
             ELSE [ok |-> TRUE, e |-> [pm.e EXCEPT !.active = ~(stopR = "true")],
                   calls |-> Append(pm.calls, "stop"), ret |-> stopR]

\* load_config without the inited guard.
LoadConfigEntry_no_inited_guard(e, src, newR, dynR) ==
    LET pm == plugin_mut(e, src, newR)
    IN  IF ~pm.ok THEN [ok |-> FALSE, e |-> pm.e, calls |-> pm.calls]
        ELSE [ok |-> dynR = "ok", e |-> pm.e, calls |-> Append(pm.calls, "load_config")]

\* The body of Manager::load_config on a mutable entry.
LoadConfigEntry(e, src, newR, dynR) ==
    IF ~e.inited THEN [ok |-> FALSE, e |-> e, calls |-> <<>>]
    ELSE LET pm == plugin_mut(e, src, newR)
         IN  IF ~pm.ok THEN [ok |-> FALSE, e |-> pm.e, calls |-> pm.calls]
             ELSE LET lc == PluginLoadConfig(pm.e.kind, pm.e.cfg, src, dynR)
                  IN  [ok |-> lc.ok, e |-> [pm.e EXCEPT !.cfg = lc.cfg],
                       calls |-> Append(pm.calls, "load_config")]

\* Manager::start(name)
ManagerStart(n) ==
    /\ IF plugins[n] = NoEntry THEN TRUE ELSE plugins[n].initCalls < MaxInitCalls
    /\ LET gm == get_mut(plugins[n])
       IN  IF ~gm.some
           THEN /\ lastOp' = [op |-> "start", name |-> n, ok |-> FALSE, calls |-> <<>>,
                              ret |-> "err", src |-> cfgSource[n], before |-> plugins[n]]
                /\ UNCHANGED plugins
           ELSE \E newR \in NewOutcomes(plugins[n].kind, cfgSource[n]),
                   initR \in InitOutcomes(plugins[n].kind),
                   startR \in StartOutcomes(plugins[n].kind) :
                   LET r == StartEntry(plugins[n], cfgSource[n], newR, initR, startR)
                   IN  /\ plugins' = [plugins EXCEPT ![n] = r.e]
                       /\ lastOp' = [op |-> "start", name |-> n, ok |-> r.ok,
                                     calls |-> r.calls,
                                     ret |-> IF r.ok THEN "ok" ELSE "err",
                                     src |-> cfgSource[n], before |-> plugins[n]]
    /\ UNCHANGED <<cfgSource, aclVars, authVars, grpcVars, extVars>>

\* Manager::stop(name)
ManagerStop(n) ==
    /\ LET gm == get_mut(plugins[n])
       IN  IF ~gm.some
           THEN /\ lastOp' = [op |-> "stop", name |-> n, ok |-> FALSE, calls |-> <<>>,
                              ret |-> "err", src |-> cfgSource[n], before |-> plugins[n]]
                /\ UNCHANGED plugins
           ELSE \E newR \in NewOutcomes(plugins[n].kind, cfgSource[n]),
                   stopR \in StopOutcomes(plugins[n].kind) :
                   LET r == StopEntry(plugins[n], cfgSource[n], newR, stopR)
                   IN  /\ plugins' = [plugins EXCEPT ![n] = r.e]
                       /\ lastOp' = [op |-> "stop", name |-> n, ok |-> r.ok,
                                     calls |-> r.calls, ret |-> r.ret,
                                     src |-> cfgSource[n], before |-> plugins[n]]
    /\ UNCHANGED <<cfgSource, aclVars, authVars, grpcVars, extVars>>

\* Manager::load_config(name)
ManagerLoadConfig(n) ==
    /\ LET gm == get_mut(plugins[n])
       IN  IF ~gm.some
           THEN /\ lastOp' = [op |-> "load_config", name |-> n, ok |-> FALSE,
                              calls |-> <<>>, ret |-> "err", src |-> cfgSource[n], before |-> plugins[n]]
                /\ UNCHANGED plugins
           ELSE \E newR \in NewOutcomes(plugins[n].kind, cfgSource[n]),
                   dynR \in {"ok", "err"} :
                   LET r == LoadConfigEntry(plugins[n], cfgSource[n], newR, dynR)
                   IN  /\ plugins' = [plugins EXCEPT ![n] = r.e]
                       /\ lastOp' = [op |-> "load_config", name |-> n, ok |-> r.ok,
                                     calls |-> r.calls,
                                     ret |-> IF r.ok THEN "ok" ELSE "err",
                                     src |-> cfgSource[n], before |-> plugins[n]]
    /\ UNCHANGED <<cfgSource, aclVars, authVars, grpcVars, extVars>>

\* The body of Manager::register: the registry slot for the name afterwards.
RegisterEntry(old, kind, default_startup, immutable, src, oldStopR, newR, initR, startR) ==
    LET stopCalls == IF old # NoEntry /\ old.active THEN <<"stop">> ELSE <<>>
    IN  IF old # NoEntry /\ old.active /\ (~old.plugin \/ oldStopR = "err")
        THEN [ok |-> FALSE, e |-> NoEntry, calls |-> stopCalls]
        ELSE IF ~default_startup
             THEN [ok |-> TRUE, e |-> NewEntry(kind, FALSE, immutable, NoCfg),
                   calls |-> stopCalls]
        ELSE IF newR # "ok"
             THEN [ok |-> FALSE, e |-> NoEntry, calls |-> Append(stopCalls, "new")]
        ELSE IF initR # "ok"
             THEN [ok |-> FALSE, e |-> NoEntry, calls |-> stopCalls \o <<"new", "init">>]
        ELSE IF startR # "ok"
             THEN [ok |-> FALSE, e |-> NoEntry,
                   calls |-> stopCalls \o <<"new", "init", "start">>]
        ELSE [ok |-> TRUE, e |-> NewEntry(kind, TRUE, immutable, read_config(src).cfg),
              calls |-> stopCalls \o <<"new", "init", "start">>]

\* Manager::register(name, default_startup, immutable, plugin_f)
ManagerRegister(n) ==
    /\ \E kind \in Kinds, default_startup \in BOOLEAN, immutable \in BOOLEAN :
         \E oldStopR \in (IF plugins[n] = NoEntry THEN {"true"}
                          ELSE StopOutcomes(plugins[n].kind)),
            newR \in NewOutcomes(kind, cfgSource[n]),
            initR \in InitOutcomes(kind),
            startR \in StartOutcomes(kind) :
            LET r == RegisterEntry(plugins[n], kind, default_startup, immutable,
                                   cfgSource[n], oldStopR, newR, initR, startR)
            IN  /\ plugins' = [plugins EXCEPT ![n] = r.e]
                /\ lastOp' = [op |-> "register", name |-> n, ok |-> r.ok,
                              calls |-> r.calls, ret |-> IF r.ok THEN "ok" ELSE "err",
                              src |-> cfgSource[n], before |-> plugins[n],
                              default_startup |-> default_startup]
    /\ UNCHANGED <<cfgSource, aclVars, authVars, grpcVars, extVars>>

\* The operator edits the plugin's config source (file, inline map or environment).
EditConfig(n) ==
    /\ \E v \in ConfigValues \cup {Invalid} :
         /\ v # cfgSource[n]
         /\ cfgSource' = [cfgSource EXCEPT ![n] = v]
    /\ UNCHANGED <<plugins, lastOp, aclVars, authVars, grpcVars, extVars>>

InitPlugin ==
    /\ plugins = [n \in Names |-> NoEntry]
    /\ cfgSource = [n \in Names |-> "cfgA"]
    /\ lastOp = NoOp

NextPlugin ==
    \/ \E n \in Names : ManagerRegister(n)
    \/ \E n \in Names : ManagerStart(n)
    \/ \E n \in Names : ManagerStop(n)
    \/ \E n \in Names : ManagerLoadConfig(n)
    \/ \E n \in Names : EditConfig(n)

(***************************************************************************)
(* Plugin manager properties                                               *)
(***************************************************************************)
\* The last Manager call was op, on a name that had an entry.
LastOn(op) == lastOp.op = op /\ lastOp.before # NoEntry
\* The entry of the last call's name, as the call left it.
After == plugins[lastOp.name]
SameLifecycle(a, b) == a.inited = b.inited /\ a.active = b.active
StartedFromRegistered ==
    /\ LastOn("start")
    /\ ~lastOp.before.immutable
    /\ ~lastOp.before.inited /\ ~lastOp.before.active
    /\ lastOp.before.plugin_f

\* C1: start on a mutable Registered entry calls init and then start; when the
\* constructor, init or start fails, the entry is Registered again (inited and
\* active false) and still startable: its constructor or its instance is present,
\* so that a later start runs init and start.
C1_StartFailureRevertsToRegistered ==
    StartedFromRegistered =>
        IF lastOp.ok
        THEN lastOp.calls = <<"new", "init", "start">> /\ After.inited /\ After.active
        ELSE /\ ~After.inited /\ ~After.active
             /\ After.plugin_f \/ After.plugin

\* C2: start, stop and load_config on an immutable entry fail, call no plugin
\* method and leave the entry (flags, instance, constructor, config) as it was.
C2_ImmutableRejectsMutation ==
    (/\ lastOp.op \in {"start", "stop", "load_config"}
     /\ lastOp.before # NoEntry
     /\ lastOp.before.immutable)
        => /\ ~lastOp.ok
           /\ lastOp.calls = <<>>
           /\ After = lastOp.before

C2_Witness ==
    /\ LastOn("stop")
    /\ lastOp.before.immutable /\ lastOp.before.active
    /\ After.active

\* C3: stop on an Active mutable entry calls the plugin's stop and the entry
\* becomes Inited exactly when the plugin answers true; it stays Active on false
\* (the answer of the storage and retainer plugins) and on an error. stop on an
\* entry that is not active fails, calls nothing and changes nothing.
C3_StopFollowsPluginAnswer ==
    (LastOn("stop") /\ ~lastOp.before.immutable) =>
        IF lastOp.before.active
        THEN /\ lastOp.calls = <<"stop">>
             /\ After.inited
             /\ After.active = (lastOp.ret # "true")
             /\ lastOp.ret = "false" => After = lastOp.before
             /\ lastOp.before.kind \in {"StoragePlugin", "RetainerPlugin"}
                    => lastOp.ret = "false" /\ After.active
        ELSE /\ ~lastOp.ok
             /\ lastOp.calls = <<>>
             /\ After = lastOp.before

C3_Witness ==
    /\ LastOn("stop")
    /\ ~lastOp.before.immutable /\ lastOp.before.active
    /\ lastOp.ret = "true"
    /\ After.inited /\ ~After.active

\* C4 as stated: for every entry the constructor runs at most once and init is
\* called at most once; a start from Inited calls only the plugin's start; a
\* successful default-startup register leaves the entry Active.
C4_InitCalledAtMostOnce ==
    /\ \A n \in Names : plugins[n] # NoEntry =>
          plugins[n].ctorCalls <= 1 /\ plugins[n].initCalls <= 1
    /\ (LastOn("start") /\ ~lastOp.before.immutable
            /\ lastOp.before.inited /\ ~lastOp.before.active)
          => lastOp.calls = <<"start">>
    /\ (lastOp.op = "register" /\ lastOp.default_startup /\ lastOp.ok)
          => After.inited /\ After.active

\* C4 amended: the constructor runs at most once, in the first start call that
\* reaches it; init is called only while the entry is not inited, so it succeeds
\* at most once and is repeated only after it failed; a start from Inited calls
\* only the plugin's start; a successful default-startup register has constructed,
\* inited and started the plugin and leaves the entry Active.
C4_InitOnlyUntilItSucceeds ==
    /\ \A n \in Names : plugins[n] # NoEntry =>
          /\ plugins[n].ctorCalls <= 1
          /\ plugins[n].inited => plugins[n].ctorCalls = 1 /\ plugins[n].initCalls >= 1
    /\ (lastOp.op \in {"start", "stop", "load_config"} /\ lastOp.before # NoEntry) =>
          /\ (\E i \in DOMAIN lastOp.calls : lastOp.calls[i] = "init")
                => ~lastOp.before.inited
          /\ (\E i \in DOMAIN lastOp.calls : lastOp.calls[i] = "new")
                => lastOp.op = "start" /\ lastOp.before.ctorCalls = 0
          /\ After.initCalls <= lastOp.before.initCalls + 1
    /\ (LastOn("start") /\ ~lastOp.before.immutable
            /\ lastOp.before.inited /\ ~lastOp.before.active)
          => lastOp.calls = <<"start">>
    /\ (lastOp.op = "register" /\ lastOp.default_startup /\ lastOp.ok)
          => /\ After.inited /\ After.active
             /\ After.ctorCalls = 1 /\ After.initCalls = 1
             /\ SubSeq(lastOp.calls, Len(lastOp.calls) - 2, Len(lastOp.calls))
                    = <<"new", "init", "start">>

C4_Witness ==
    /\ LastOn("start")
    /\ lastOp.ok
    /\ ~lastOp.before.inited /\ lastOp.before.initCalls = 1
    /\ lastOp.calls = <<"init", "start">>
    /\ After.active /\ After.initCalls = 2 /\ After.ctorCalls = 1

\* C5 as stated: load_config on a mutable entry in any lifecycle state calls
\* the plugin's load_config and leaves inited and active as they were.
C5_LoadConfigInAnyState ==
    (LastOn("load_config") /\ ~lastOp.before.immutable) =>
        /\ lastOp.calls = <<"load_config">>
        /\ SameLifecycle(After, lastOp.before)

\* C5 amended: load_config on a mutable Inited or Active entry calls the
\* plugin's load_config; on a Registered entry it fails without constructing or
\* calling the plugin; in every case inited and active stay as they were.
C5_LoadConfigOnlyWhenInited ==
    (LastOn("load_config") /\ ~lastOp.before.immutable) =>
        /\ SameLifecycle(After, lastOp.before)
        /\ IF lastOp.before.inited
           THEN lastOp.calls = <<"load_config">>
           ELSE ~lastOp.ok /\ lastOp.calls = <<>> /\ After = lastOp.before

C5_Witness ==
    /\ LastOn("load_config")
    /\ ~lastOp.before.immutable
    /\ lastOp.before.inited /\ ~lastOp.before.active
    /\ lastOp.ok
    /\ After.cfg # lastOp.before.cfg
    /\ After.inited /\ ~After.active

\* C6: a load_config of the auth-http, auth-jwt or retainer plugin that fails
\* because the config source is invalid leaves the shared config value and the
\* lifecycle state as they were.
C6_InvalidConfigKeepsPrevious ==
    (/\ LastOn("load_config")
     /\ ~lastOp.before.immutable
     /\ lastOp.before.inited
     /\ lastOp.before.kind \in {"AuthHttpPlugin", "AuthJwtPlugin", "RetainerPlugin"}
     /\ ~read_config(lastOp.src).ok)
        => /\ ~lastOp.ok
           /\ After.cfg = lastOp.before.cfg
           /\ After.cfg \in ConfigValues
           /\ SameLifecycle(After, lastOp.before)

C6_Witness ==
    /\ LastOn("load_config")
    /\ lastOp.before.kind = "AuthHttpPlugin"
    /\ lastOp.before.active
    /\ lastOp.before.cfg = "cfgA"
    /\ lastOp.src = Invalid
    /\ ~lastOp.ok
    /\ After.cfg = "cfgA"

(***************************************************************************)
(* HTTP auth backend, publish ACL cache:                                   *)
(* rmqtt-plugins/rmqtt-auth-http/src/lib.rs                                *)
(***************************************************************************)
Sessions == {"s1", "s2"}
Topics == {"t1", "t2"}
\* The (session, topic) pairs of the publishes checked: s1 publishes to both
\* topics, s2 to one.
Publishes == {<<"s1", "t1">>, <<"s1", "t2">>, <<"s2", "t1">>}
None == [none |-> TRUE]
EmptyMap == [x \in {} |-> None]

\* enum Permission
Allow(superuser) == [tag |-> "Allow", superuser |-> superuser]
Deny == [tag |-> "Deny"]
Ignore == [tag |-> "Ignore"]
Permissions == {Allow(FALSE), Deny, Ignore}

\* X-Cache values the ACL endpoint sends (i64 milliseconds; negative: forever).
Ttls == {-1, 0, 1}

\* type Cacheable = Option<i64>: <<tm>> for Some(tm), <<>> for None.
NoTtl == <<>>

\* What request() returns to acl(): Ok(ResponseResult) or Err.
AclReplies ==
    [ok : {TRUE}, permission : Permissions, cacheable : {<<tm>> : tm \in Ttls} \cup {NoTtl}]
        \cup {[ok |-> FALSE]}

\* acl that marks the verdict of a failed request as cacheable.
acl_caches_error_verdict(reply, deny_if_error) ==
    IF reply.ok THEN [permission |-> reply.permission, cacheable |-> reply.cacheable]
    ELSE IF deny_if_error THEN [permission |-> Deny, cacheable |-> <<0>>]
    ELSE [permission |-> Ignore, cacheable |-> <<0>>]

\* AuthHandler::acl once request() has returned: (Permission, Cacheable).
acl(reply, deny_if_error) ==
    IF reply.ok THEN [permission |-> reply.permission, cacheable |-> reply.cacheable]
    ELSE IF deny_if_error THEN [permission |-> Deny, cacheable |-> NoTtl]
    ELSE [permission |-> Ignore, cacheable |-> NoTtl]

\* AuthHandler::cache_set
cache_set(c, id, topic, perm, expire) ==
    LET m == IF id \in DOMAIN c THEN c[id] ELSE EmptyMap
        m2 == [t \in DOMAIN m \cup {topic} |->
                  IF t = topic THEN [perm |-> perm, expire |-> expire] ELSE m[t]]
    IN  [i \in DOMAIN c \cup {id} |-> IF i = id THEN m2 ELSE c[i]]

\* cache_get that drops an entry whose expiry has passed.
cache_get_expiring(c, id, topic) ==
    IF id \in DOMAIN c /\ topic \in DOMAIN c[id]
           /\ (c[id][topic].expire < 0 \/ now <= c[id][topic].expire)
    THEN c[id][topic]
    ELSE None

\* AuthHandler::cache_get
cache_get(c, id, topic) ==
    IF id \in DOMAIN c /\ topic \in DOMAIN c[id] THEN c[id][topic] ELSE None

\* AuthHandler::cache_remove
cache_remove(c, id) == [i \in DOMAIN c \ {id} |-> c[i]]

\* The freshness comparison inverted: an entry is used once its expiry has passed.
CachedVerdict_inverted(found, t) ==
    IF found # None /\ (found.expire < 0 \/ t > found.expire) THEN found.perm ELSE None

\* The cached verdict is used although now has reached the expiry.
CachedVerdict_inclusive(found, t) ==
    IF found # None /\ (found.expire < 0 \/ t <= found.expire) THEN found.perm ELSE None

\* The hook's cache lookup: Some(acl_res) when the entry found may be used at t.
CachedVerdict(found, t) ==
    IF found # None /\ (found.expire < 0 \/ t < found.expire) THEN found.perm ELSE None

\* The cache fill that also evicts the entry when the reply is not cacheable.
CacheFill_evicting(c, id, topic, perm, cacheable, t) ==
    IF cacheable # NoTtl
    THEN cache_set(c, id, topic, perm, IF cacheable[1] < 0 THEN cacheable[1] ELSE t + cacheable[1])
    ELSE IF id \in DOMAIN c
         THEN [c EXCEPT ![id] = [x \in DOMAIN c[id] \ {topic} |-> c[id][x]]]
         ELSE c

\* The hook's cache fill after acl() returned (Permission, Cacheable) at time t.
CacheFill(c, id, topic, perm, cacheable, t) ==
    IF cacheable # NoTtl
    THEN cache_set(c, id, topic, perm, IF cacheable[1] < 0 THEN cacheable[1] ELSE t + cacheable[1])
    ELSE c

\* The hook's return value for the publish ACL verdict: (proceed, accumulator).
\* Rejected carries cfg.disconnect_if_pub_rejected.
PublishReturn(perm) ==
    CASE perm.tag = "Allow" -> [proceed |-> FALSE, acc |-> "PublishAclResult::Allow"]
      [] perm.tag = "Deny" -> [proceed |-> FALSE, acc |-> "PublishAclResult::Rejected"]
      [] OTHER -> [proceed |-> TRUE, acc |-> "None"]

\* No MessagePublishCheckAcl handler returned in the last step.
NoCheck == [op |-> "none"]

\* The record of a MessagePublishCheckAcl handler that returned in the last step.
\* found is what cache_get returned (None when the cache was not consulted), hit
\* whether it was used as the verdict, t the time of the return, before and after
\* the cache entry of (id, topic) around the handler's last step.
Completed(id, topic, found, hit, http, perm, cacheable, ret, before, after) ==
    [op |-> "publish", id |-> id, topic |-> topic, found |-> found,
     hit |-> hit, http |-> http, perm |-> perm, cacheable |-> cacheable,
     ret |-> ret, t |-> now, before |-> before, after |-> after]

\* What the handler is called with: the accumulator of the earlier handlers,
\* the verdict of the session's own AuthInfo rules (publish_acl), and whether
\* cfg.http_acl_req is set.
PublishInputs ==
    {[acc |-> "PublishAclResult::Rejected", ruleRes |-> "None", has_acl_req |-> TRUE],
     [acc |-> "None", ruleRes |-> "PublishAclResult::Allow", has_acl_req |-> TRUE],
     [acc |-> "None", ruleRes |-> "None", has_acl_req |-> FALSE],
     [acc |-> "PublishAclResult::Allow", ruleRes |-> "None", has_acl_req |-> TRUE],
     [acc |-> "None", ruleRes |-> "None", has_acl_req |-> TRUE]}

\* MessagePublishCheckAcl, up to its return or its suspension in acl(): the
\* accumulator guard, the session's own ACL rules, the cache lookup, and acl()
\* without a configured http_acl_req.
PublishCheckAcl(id, topic) ==
    /\ id \in online
    /\ \E in \in PublishInputs :
         LET found == cache_get(caches, id, topic)
             cached == CachedVerdict(found, now)
         IN  IF in.acc = "PublishAclResult::Rejected"
             THEN /\ lastCheck' = Completed(id, topic, None, FALSE, "none", None, NoTtl,
                                            [proceed |-> FALSE, acc |-> in.acc], None, None)
                  /\ UNCHANGED <<checks, issued>>
             ELSE IF in.ruleRes # "None"
             THEN /\ lastCheck' = Completed(id, topic, None, FALSE, "none", None, NoTtl,
                                            [proceed |-> FALSE, acc |-> in.ruleRes], None, None)
                  /\ UNCHANGED <<checks, issued>>
             ELSE IF cached # None
             THEN /\ lastCheck' = Completed(id, topic, found, TRUE, "none", cached, NoTtl,
                                            PublishReturn(cached), found, found)
                  /\ UNCHANGED <<checks, issued>>
             ELSE IF ~in.has_acl_req
             THEN /\ lastCheck' = Completed(id, topic, found, FALSE, "none", Ignore, NoTtl,
                                            PublishReturn(Ignore), found, found)
                  /\ UNCHANGED <<checks, issued>>
             ELSE /\ issued < MaxRequests
                  /\ issued' = issued + 1
                  /\ checks' = checks \cup {[id |-> id, topic |-> topic, found |-> found]}
                  /\ lastCheck' = NoCheck
    /\ UNCHANGED <<now, caches, online, lastSet, pluginVars, authVars, grpcVars, extVars>>

\* How a suspended request ends: the reply, and cfg.deny_if_error as acl() reads it
\* (it decides only when request() returned Err).
ReplyInputs ==
    {[reply |-> r, deny_if_error |-> d] : r \in AclReplies, d \in BOOLEAN}
        \ {[reply |-> r, deny_if_error |-> TRUE] : r \in {x \in AclReplies : x.ok}}

\* MessagePublishCheckAcl resumed when request() returns: acl()'s verdict, the
\* cache fill and the return value.
PublishCheckAclReply(chk) ==
    /\ chk \in checks
    /\ \E in \in ReplyInputs :
         LET r == acl(in.reply, in.deny_if_error)
             filled == CacheFill(caches, chk.id, chk.topic, r.permission, r.cacheable, now)
         IN  /\ caches' = filled
             /\ lastSet' = IF r.cacheable # NoTtl
                           THEN [lastSet EXCEPT ![chk.id][chk.topic] =
                                    [perm |-> r.permission,
                                     expire |-> IF r.cacheable[1] < 0 THEN r.cacheable[1]
                                                ELSE now + r.cacheable[1]]]
                           ELSE lastSet
             /\ lastCheck' = Completed(chk.id, chk.topic, chk.found, FALSE,
                                       IF in.reply.ok THEN "ok" ELSE "err",
                                       r.permission, r.cacheable,
                                       PublishReturn(r.permission),
                                       cache_get(caches, chk.id, chk.topic),
                                       cache_get(filled, chk.id, chk.topic))
    /\ checks' = checks \ {chk}
    /\ UNCHANGED <<now, online, issued, pluginVars, authVars, grpcVars, extVars>>

\* The ClientDisconnected handler.
ClientDisconnected(id) ==
    /\ id \in online
    /\ online' = online \ {id}
    /\ caches' = cache_remove(caches, id)
    /\ lastSet' = [lastSet EXCEPT ![id] = [t \in Topics |-> None]]
    /\ lastCheck' = NoCheck
    /\ UNCHANGED <<now, checks, issued, pluginVars, authVars, grpcVars, extVars>>

\* timestamp_millis() advances.
Tick ==
    /\ now < MaxNow
    /\ now' = now + 1
    /\ lastCheck' = NoCheck
    /\ UNCHANGED <<caches, online, checks, issued, lastSet, pluginVars, authVars, grpcVars, extVars>>

InitAcl ==
    /\ now = 1
    /\ caches = EmptyMap
    /\ online = Sessions
    /\ checks = {}
    /\ issued = 0
    /\ lastCheck = NoCheck
    /\ lastSet = [id \in Sessions |-> [t \in Topics |-> None]]

NextAcl ==
    \/ \E pub \in Publishes : PublishCheckAcl(pub[1], pub[2])
    \/ \E chk \in checks : PublishCheckAclReply(chk)
    \/ \E id \in Sessions : ClientDisconnected(id)
    \/ Tick

(***************************************************************************)
(* HTTP auth backend, responses and verdicts:                              *)
(* rmqtt-plugins/rmqtt-auth-http/src/lib.rs                                *)
(***************************************************************************)
\* Header text is a sequence of characters.
DigitChars == <<"0", "1", "2", "3", "4", "5", "6", "7", "8", "9">>
IsDigit(c) == \E i \in DOMAIN DigitChars : DigitChars[i] = c
DigitValue(c) == (CHOOSE i \in DOMAIN DigitChars : DigitChars[i] = c) - 1

RECURSIVE DecimalValue(_)
DecimalValue(s) ==
    IF s = <<>> THEN 0
    ELSE DecimalValue(SubSeq(s, 1, Len(s) - 1)) * 10 + DigitValue(s[Len(s)])

\* tm.parse::<i64>() as a Cacheable: <<value>> for Ok(value), <<>> for Err. An
\* optional sign, then one or more digits and nothing else.
parse_i64(s) ==
    LET signed == s # <<>> /\ s[1] \in {"+", "-"}
        digits == IF signed THEN Tail(s) ELSE s
    IN  IF digits = <<>> \/ \E i \in DOMAIN digits : ~IsDigit(digits[i]) THEN <<>>
        ELSE <<IF signed /\ s[1] = "-" THEN 0 - DecimalValue(digits) ELSE DecimalValue(digits)>>

\* The X-Cache header of a response: absent, not visible ASCII (to_str fails),
\* or a text.
NoHeader == [present |-> FALSE]
OpaqueHeader == [present |-> TRUE, visible |-> FALSE]
TextHeader(text) == [present |-> TRUE, visible |-> TRUE, text |-> text]
XCacheTexts ==
    {<<"-", "1">>, <<"0">>, <<"1">>, <<"+", "1">>, <<"1", "s">>, <<"-">>, <<>>}
XCacheHeaders == {NoHeader, OpaqueHeader} \cup {TextHeader(t) : t \in XCacheTexts}

\* cache_timeout in response_result.
cache_timeout(h) ==
    IF h.present /\ h.visible THEN parse_i64(h.text) ELSE <<>>

\* Content-Type headers; is_json_content_type is starts_with("application/json").
ContentTypes == {"application/json; charset=utf-8", "text/plain", "absent"}
is_json_content_type(ct) == ct = "application/json; charset=utf-8"

\* Verdict words a body carries.
BodyWords == {"allow", "deny", "ignore", "", "yes"}

\* The "acl" member of a JSON object body: absent, a value that is no array, or
\* an array of rule descriptors. A descriptor is named by what its rule decides
\* for the topic at hand; "bad" is one Rule::try_from rejects.
NoAcl == [kind |-> "absent"]
AclValue == [kind |-> "value"]
AclArray(descs) == [kind |-> "array", descs |-> descs]
AclMembers == {NoAcl, AclValue} \cup
    {AclArray(d) : d \in {<<>>, <<"allow">>, <<"deny">>, <<"nomatch", "bad">>}}

\* Response bodies: plain text that is no JSON, a JSON string, a JSON object
\* {result?, superuser?, expire_at?, acl?} (an absent or wrongly typed member is
\* <<>>), another JSON value, or a body whose transfer fails.
TextBody(s) == [kind |-> "text", s |-> s]
JsonString(s) == [kind |-> "json_string", s |-> s]
JsonObject(result, superuser, expire_at, acl_data) ==
    [kind |-> "json_object", result |-> result, superuser |-> superuser,
     expire_at |-> expire_at, acl_data |-> acl_data]
JsonOther == [kind |-> "json_other"]
Unreadable == [kind |-> "unreadable"]

\* resp.text(): the body as text. The text of a JSON value is none of the
\* verdict words.
body_text(b) == IF b.kind = "text" THEN b.s ELSE "<json>"

\* Permission::try_from((s, superuser)): <<permission>> for Ok, <<>> for Err.
Permission_try_from(s, superuser) ==
    CASE s = "allow" -> <<Allow(superuser)>>
      [] s = "deny" -> <<Deny>>
      [] s = "ignore" -> <<Ignore>>
      [] OTHER -> <<>>

\* Permission::from(s, superuser)
Permission_from(s, superuser) ==
    CASE s = "allow" -> Allow(superuser)
      [] s = "deny" -> Deny
      [] s = "ignore" -> Ignore
      [] OTHER -> Allow(superuser)

\* struct ResponseResult, as Ok(..) of a Result; RequestErr is Err(..).
ResponseResult(permission, superuser, cacheable, expire_at, acl_data) ==
    [ok |-> TRUE, permission |-> permission, superuser |-> superuser,
     cacheable |-> cacheable, expire_at |-> expire_at, acl_data |-> acl_data]
ResponseResult_new(permission, superuser, cacheable) ==
    ResponseResult(permission, superuser, cacheable, <<>>, NoAcl)
RequestErr == [ok |-> FALSE]

\* A response of the HTTP endpoint, and a request that got none.
Response(status_success, content_type, x_superuser, x_cache, body) ==
    [kind |-> "response", status_success |-> status_success,
     content_type |-> content_type, x_superuser |-> x_superuser,
     x_cache |-> x_cache, body |-> body]
TransportError == [kind |-> "error"]

\* response_result without the status test: every response is read as a success.
response_result_any_status(resp) ==
    ResponseResult_new(Permission_from(body_text(resp.body), resp.x_superuser),
                       resp.x_superuser, cache_timeout(resp.x_cache))

\* AuthHandler::response_result
response_result(resp) ==
    IF resp.status_success
    THEN LET superuser == resp.x_superuser
             timeout == cache_timeout(resp.x_cache)
             body == resp.body
         IN  IF is_json_content_type(resp.content_type)
             THEN CASE body.kind = "json_object" ->
                         IF body.result = <<>> THEN RequestErr
                         ELSE LET su == IF body.superuser # <<>> THEN body.superuser[1]
                                        ELSE superuser
                                  permission == Permission_try_from(body.result[1], su)
                              IN  IF permission = <<>> THEN RequestErr
                                  ELSE ResponseResult(permission[1], su, timeout,
                                                      body.expire_at, body.acl_data)
                    [] body.kind = "json_string" ->
                         LET permission == Permission_try_from(body.s, superuser)
                         IN  IF permission = <<>> THEN RequestErr
                             ELSE ResponseResult_new(permission[1], superuser, timeout)
                    [] OTHER -> RequestErr
             ELSE IF body.kind = "unreadable" THEN RequestErr
                  ELSE ResponseResult_new(Permission_from(body_text(body), superuser),
                                          superuser, timeout)
    ELSE ResponseResult_new(Ignore, FALSE, <<>>)

\* AuthHandler::request: Err when the request gets no response, else
\* response_result of the response.
request(outcome) ==
    IF outcome.kind = "error" THEN RequestErr ELSE response_result(outcome)

\* struct AuthInfo; rules are named by what they decide for the topic at hand.
AuthInfo(superuser, expire_at, rules) ==
    [superuser |-> superuser, expire_at |-> expire_at, rules |-> rules]

\* Rule::try_from over the acl array: <<rules>> when every descriptor converts.
RulesFrom(descs) ==
    IF \E i \in DOMAIN descs : descs[i] = "bad" THEN <<>> ELSE <<descs>>

\* AuthInfo::is_expired at time t.
is_expired(ai, t) == ai.expire_at # <<>> /\ t >= ai.expire_at[1]

\* The decision of the first rule that matches, or "nomatch".
RECURSIVE FirstMatch(_)
FirstMatch(rules) ==
    IF rules = <<>> THEN "nomatch"
    ELSE IF Head(rules) # "nomatch" THEN Head(rules)
    ELSE FirstMatch(Tail(rules))

\* enum AuthResult
AuthResultAllow(superuser, auth_info) ==
    [tag |-> "AuthResult::Allow", superuser |-> superuser, auth_info |-> auth_info]
BadUsernameOrPassword == [tag |-> "AuthResult::BadUsernameOrPassword"]
NotAuthorized == [tag |-> "AuthResult::NotAuthorized"]

\* SubscribeAclResult::new_success / new_failure(NotAuthorized)
SubscribeSuccess == [tag |-> "SubscribeAclResult", failure |-> FALSE]
SubscribeFailure == [tag |-> "SubscribeAclResult", failure |-> TRUE]

\* ReturnType: (proceed, accumulator)
Return(proceed, acc) == [proceed |-> proceed, acc |-> acc]

\* AuthInfo::subscribe_acl: <<ReturnType>> for Some, <<>> for None.
subscribe_acl(ai, t) ==
    IF is_expired(ai, t) THEN <<Return(FALSE, SubscribeFailure)>>
    ELSE CASE FirstMatch(ai.rules) = "allow" -> <<Return(FALSE, SubscribeSuccess)>>
           [] FirstMatch(ai.rules) = "deny" -> <<Return(FALSE, SubscribeFailure)>>
           [] OTHER -> <<>>

\* AuthInfo::publish_acl: <<ReturnType>> for Some, <<>> for None.
publish_acl(ai, t) ==
    IF is_expired(ai, t) THEN <<Return(FALSE, "PublishAclResult::Rejected")>>
    ELSE CASE FirstMatch(ai.rules) = "allow" -> <<Return(FALSE, "PublishAclResult::Allow")>>
           [] FirstMatch(ai.rules) = "deny" -> <<Return(FALSE, "PublishAclResult::Rejected")>>
           [] OTHER -> <<>>

\* AuthHandler::auth: (Permission, Option<AuthInfo>)
auth(has_auth_req, outcome, deny_if_error) ==
    IF has_auth_req
    THEN LET auth_res == request(outcome)
         IN  IF auth_res.ok
             THEN [permission |-> auth_res.permission,
                   auth_info |->
                       IF auth_res.permission.tag = "Allow"
                              /\ auth_res.acl_data.kind = "array"
                              /\ RulesFrom(auth_res.acl_data.descs) # <<>>
                       THEN AuthInfo(auth_res.superuser, auth_res.expire_at,
                                     RulesFrom(auth_res.acl_data.descs)[1])
                       ELSE None]
             ELSE IF deny_if_error THEN [permission |-> Deny, auth_info |-> None]
             ELSE [permission |-> Ignore, auth_info |-> None]
    ELSE [permission |-> Ignore, auth_info |-> None]

\* AuthHandler::acl from its start: no request without cfg.http_acl_req.
acl_request(has_acl_req, outcome, deny_if_error) ==
    IF has_acl_req THEN acl(request(outcome), deny_if_error)
    ELSE [permission |-> Ignore, cacheable |-> NoTtl]

\* What a hook call leaves behind: its return value, the verdict of the HTTP
\* backend when one was computed (None otherwise) and the messages it sent to
\* the session's mailbox.
HookOut(ret, verdict, sent) == [ret |-> ret, verdict |-> verdict, sent |-> sent]

\* ClientAuthenticate with Deny committed as NotAuthorized and Ignore ending the chain.
HttpClientAuthenticate_stops_on_ignore(in, t) ==
    LET a == auth(in.has_auth_req, in.outcome, in.deny_if_error)
    IN  CASE a.permission.tag = "Allow" ->
                HookOut(Return(FALSE, AuthResultAllow(a.permission.superuser, a.auth_info)),
                        a.permission, <<>>)
          [] a.permission.tag = "Deny" ->
                HookOut(Return(FALSE, NotAuthorized), a.permission, <<>>)
          [] OTHER -> HookOut(Return(FALSE, None), a.permission, <<>>)

\* AuthHandler::hook, Parameter::ClientAuthenticate (auth-http), called at time t
\* with in = [acc, has_auth_req, outcome, deny_if_error].
HttpClientAuthenticate(in, t) ==
    IF in.acc \in {BadUsernameOrPassword, NotAuthorized}
    THEN HookOut(Return(FALSE, in.acc), None, <<>>)
    ELSE LET a == auth(in.has_auth_req, in.outcome, in.deny_if_error)
         IN  CASE a.permission.tag = "Allow" ->
                     IF a.auth_info # None /\ is_expired(a.auth_info, t)
                     THEN HookOut(Return(FALSE, NotAuthorized), a.permission, <<>>)
                     ELSE HookOut(Return(FALSE, AuthResultAllow(a.permission.superuser,
                                                                a.auth_info)),
                                  a.permission, <<>>)
               [] a.permission.tag = "Deny" ->
                     HookOut(Return(FALSE, BadUsernameOrPassword), a.permission, <<>>)
               [] OTHER -> HookOut(Return(TRUE, None), a.permission, <<>>)

\* AuthHandler::hook, Parameter::ClientSubscribeCheckAcl (auth-http), with
\* in = [acc, auth_info, has_acl_req, outcome, deny_if_error].
HttpClientSubscribeCheckAcl(in, t) ==
    IF in.acc # None /\ in.acc.failure
    THEN HookOut(Return(FALSE, in.acc), None, <<>>)
    ELSE IF in.auth_info # None /\ subscribe_acl(in.auth_info, t) # <<>>
    THEN HookOut(subscribe_acl(in.auth_info, t)[1], None, <<>>)
    ELSE LET r == acl_request(in.has_acl_req, in.outcome, in.deny_if_error)
         IN  CASE r.permission.tag = "Allow" ->
                     HookOut(Return(FALSE, SubscribeSuccess), r.permission, <<>>)
               [] r.permission.tag = "Deny" ->
                     HookOut(Return(FALSE, SubscribeFailure), r.permission, <<>>)
               [] OTHER -> HookOut(Return(TRUE, None), r.permission, <<>>)

\* MessagePublishCheckAcl that looks in the cache before the session's rules.
HttpMessagePublishCheckAcl_cache_first(in, c, t) ==
    LET cached == CachedVerdict(cache_get(c, in.id, in.topic), t)
    IN  IF cached # None
        THEN [out |-> HookOut(PublishReturn(cached), cached, <<>>), caches |-> c]
        ELSE IF in.auth_info # None /\ publish_acl(in.auth_info, t) # <<>>
        THEN [out |-> HookOut(publish_acl(in.auth_info, t)[1], None, <<>>), caches |-> c]
        ELSE LET r == acl_request(in.has_acl_req, in.outcome, in.deny_if_error)
             IN  [out |-> HookOut(PublishReturn(r.permission), r.permission, <<>>),
                  caches |-> CacheFill(c, in.id, in.topic, r.permission, r.cacheable, t)]

\* AuthHandler::hook, Parameter::MessagePublishCheckAcl (auth-http), run from
\* call to return at time t on the cache c, with
\* in = [acc, auth_info, id, topic, has_acl_req, outcome, deny_if_error]:
\* the result and the cache afterwards.
HttpMessagePublishCheckAcl(in, c, t) ==
    IF in.acc = "PublishAclResult::Rejected"
    THEN [out |-> HookOut(Return(FALSE, in.acc), None, <<>>), caches |-> c]
    ELSE IF in.auth_info # None /\ publish_acl(in.auth_info, t) # <<>>
    THEN [out |-> HookOut(publish_acl(in.auth_info, t)[1], None, <<>>), caches |-> c]
    ELSE LET cached == CachedVerdict(cache_get(c, in.id, in.topic), t)
         IN  IF cached # None
             THEN [out |-> HookOut(PublishReturn(cached), cached, <<>>), caches |-> c]
             ELSE LET r == acl_request(in.has_acl_req, in.outcome, in.deny_if_error)
                  IN  [out |-> HookOut(PublishReturn(r.permission), r.permission, <<>>),
                       caches |-> CacheFill(c, in.id, in.topic, r.permission,
                                            r.cacheable, t)]

\* Message::Closed(Reason::ConnectDisconnect(Some(Disconnect::Other(text))))
Closed(text) == [tag |-> "Message::Closed", reason |-> "ConnectDisconnect", text |-> text]

\* ClientKeepalive that does not read cfg.disconnect_if_expiry.
ClientKeepalive_ignores_flag(in, t, text) ==
    IF in.auth_info # None /\ is_expired(in.auth_info, t) /\ in.has_tx
    THEN HookOut(Return(TRUE, in.acc), None, <<Closed(text)>>)
    ELSE HookOut(Return(TRUE, in.acc), None, <<>>)

\* AuthHandler::hook, Parameter::ClientKeepalive (auth-http with text
\* "Http Auth expired", auth-jwt with "JWT Auth expired"), with
\* in = [acc, auth_info, disconnect_if_expiry, has_tx].
ClientKeepalive(in, t, text) ==
    IF in.auth_info # None /\ is_expired(in.auth_info, t) /\ in.disconnect_if_expiry
           /\ in.has_tx
    THEN HookOut(Return(TRUE, in.acc), None, <<Closed(text)>>)
    ELSE HookOut(Return(TRUE, in.acc), None, <<>>)

\* AuthHandler::hook, Parameter::ClientSubscribeCheckAcl (auth-jwt), with
\* in = [acc, auth_info].
JwtClientSubscribeCheckAcl(in, t) ==
    IF in.acc # None /\ in.acc.failure
    THEN HookOut(Return(FALSE, in.acc), None, <<>>)
    ELSE IF in.auth_info # None /\ subscribe_acl(in.auth_info, t) # <<>>
    THEN HookOut(subscribe_acl(in.auth_info, t)[1], None, <<>>)
    ELSE HookOut(Return(TRUE, in.acc), None, <<>>)

\* AuthHandler::hook, Parameter::MessagePublishCheckAcl (auth-jwt), with
\* in = [acc, auth_info].
JwtMessagePublishCheckAcl(in, t) ==
    IF in.acc = "PublishAclResult::Rejected"
    THEN HookOut(Return(FALSE, in.acc), None, <<>>)
    ELSE IF in.auth_info # None /\ publish_acl(in.auth_info, t) # <<>>
    THEN HookOut(publish_acl(in.auth_info, t)[1], None, <<>>)
    ELSE HookOut(Return(TRUE, in.acc), None, <<>>)

\* A JWT as the handler reads it: verified is whether its signature and the
\* configured nbf / aud / iss / sub checks pass; exp, superuser and acl are the
\* claims of those names (<<>> for an absent or wrongly typed one).
Token(verified, exp, superuser, acl_claim) ==
    [verified |-> verified, exp |-> exp, superuser |-> superuser, acl |-> acl_claim]

\* AuthHandler::standard_auth: Ok(token_data) or Err. decode checks exp only
\* when validation.validate_exp is set, and then rejects a token whose exp has
\* been reached at t.
standard_auth(token, validate_exp_enable, t) ==
    /\ token.verified
    /\ validate_exp_enable => (token.exp = <<>> \/ t < token.exp[1])

\* AuthHandler::hook, Parameter::ClientAuthenticate (auth-jwt), called at time t
\* with in = [acc, token, validate_exp_enable, customs_ok]: token is <<>> when
\* the configured CONNECT field is absent, customs_ok is extended_auth's result.
JwtClientAuthenticate(in, t) ==
    IF in.acc \in {BadUsernameOrPassword, NotAuthorized}
    THEN HookOut(Return(FALSE, in.acc), None, <<>>)
    ELSE IF in.token = <<>>
    THEN HookOut(Return(FALSE, NotAuthorized), None, <<>>)
    ELSE IF ~standard_auth(in.token[1], in.validate_exp_enable, t)
    THEN HookOut(Return(FALSE, NotAuthorized), None, <<>>)
    ELSE IF ~in.customs_ok
    THEN HookOut(Return(FALSE, NotAuthorized), None, <<>>)
    ELSE LET token_data == in.token[1]
             superuser == IF token_data.superuser # <<>> THEN token_data.superuser[1]
                          ELSE FALSE
             rules == IF token_data.acl.kind = "array"
                      THEN RulesFrom(token_data.acl.descs) ELSE <<<<>>>>
         IN  IF rules = <<>>
             THEN HookOut(Return(FALSE, NotAuthorized), None, <<>>)
             ELSE HookOut(Return(FALSE,
                                 AuthResultAllow(superuser,
                                                 AuthInfo(superuser, token_data.exp,
                                                          rules[1]))),
                          None, <<>>)

\* Responses with every header and body shape but no JSON object.
SimpleResponses ==
    {Response(st, ct, su, xc, b) :
        st \in BOOLEAN, ct \in ContentTypes, su \in BOOLEAN, xc \in XCacheHeaders,
        b \in {TextBody(w) : w \in BodyWords} \cup {JsonString(w) : w \in BodyWords}
                \cup {JsonOther, Unreadable}}

\* Success responses with a JSON object body.
ObjectResponses ==
    {Response(TRUE, "application/json; charset=utf-8", su, xc,
              JsonObject(result, superuser, expire_at, acl_data)) :
        su \in BOOLEAN, xc \in {NoHeader, TextHeader(<<"1">>)},
        result \in {<<>>} \cup {<<w>> : w \in BodyWords},
        superuser \in {<<>>, <<TRUE>>, <<FALSE>>},
        expire_at \in {<<>>, <<2>>},
        acl_data \in AclMembers}

\* How a request to the auth endpoint can end.
HttpOutcomes == {TransportError} \cup SimpleResponses \cup ObjectResponses

\* How a request to the ACL endpoint can end: the verdict and the X-Cache
\* header are all that acl() reads of it.
AclOutcomes ==
    {TransportError} \cup
    {Response(st, ct, FALSE, xc, b) :
        st \in BOOLEAN, ct \in {"application/json; charset=utf-8", "text/plain"},
        xc \in {NoHeader, TextHeader(<<"-", "1">>), TextHeader(<<"1">>),
                TextHeader(<<"1", "s">>)},
        b \in {TextBody("allow"), TextBody("deny"), TextBody("ignore"), TextBody("yes"),
               JsonString("deny"), JsonObject(<<"allow">>, <<>>, <<>>, NoAcl)}}

\* The AuthInfo a session can carry: none, or one with or without an expiry.
SessionAuthInfos ==
    {None} \cup {AuthInfo(FALSE, e, r) : e \in {<<>>, <<2>>},
                                         r \in {<<>>, <<"allow">>, <<"nomatch", "deny">>}}

\* The hook calls: the hook's name and its arguments.
AuthenticateCalls ==
    [op : {"HttpClientAuthenticate"},
     acc : {None, BadUsernameOrPassword, NotAuthorized, AuthResultAllow(FALSE, None)},
     has_auth_req : {TRUE}, outcome : HttpOutcomes, deny_if_error : BOOLEAN]
    \cup
    [op : {"HttpClientAuthenticate"}, acc : {None, AuthResultAllow(FALSE, None)},
     has_auth_req : {FALSE}, outcome : {TransportError}, deny_if_error : BOOLEAN]

SubscribeCalls ==
    [op : {"HttpClientSubscribeCheckAcl"},
     acc : {None, SubscribeSuccess, SubscribeFailure},
     auth_info : SessionAuthInfos, has_acl_req : {TRUE}, outcome : AclOutcomes,
     deny_if_error : BOOLEAN]
    \cup
    [op : {"HttpClientSubscribeCheckAcl"}, acc : {None, SubscribeSuccess},
     auth_info : SessionAuthInfos, has_acl_req : {FALSE}, outcome : {TransportError},
     deny_if_error : BOOLEAN]

PublishCalls ==
    [op : {"HttpMessagePublishCheckAcl"},
     acc : {"None", "PublishAclResult::Allow", "PublishAclResult::Rejected"},
     auth_info : SessionAuthInfos, id : {"s1"}, topic : {"t1"},
     has_acl_req : {TRUE}, outcome : AclOutcomes, deny_if_error : BOOLEAN]
    \cup
    [op : {"HttpMessagePublishCheckAcl"}, acc : {"None", "PublishAclResult::Allow"},
     auth_info : SessionAuthInfos, id : {"s1"}, topic : {"t1"},
     has_acl_req : {FALSE}, outcome : {TransportError}, deny_if_error : BOOLEAN]

KeepaliveCalls ==
    [op : {"HttpClientKeepalive", "JwtClientKeepalive"}, acc : {None},
     auth_info : SessionAuthInfos, disconnect_if_expiry : BOOLEAN, has_tx : {TRUE}]

\* The tokens a CONNECT can carry.
Tokens ==
    {<<>>} \cup
    {<<Token(v, e, su, a)>> :
        v \in BOOLEAN, e \in {<<>>, <<2>>}, su \in {<<>>, <<TRUE>>},
        a \in {NoAcl, AclArray(<<"allow">>), AclArray(<<"nomatch", "bad">>)}}

JwtAuthenticateCalls ==
    [op : {"JwtClientAuthenticate"},
     acc : {None, NotAuthorized, AuthResultAllow(FALSE, None)},
     token : Tokens, validate_exp_enable : BOOLEAN, customs_ok : BOOLEAN]

JwtAclCalls ==
    [op : {"JwtClientSubscribeCheckAcl"},
     acc : {None, SubscribeSuccess, SubscribeFailure}, auth_info : SessionAuthInfos]
    \cup
    [op : {"JwtMessagePublishCheckAcl"},
     acc : {"None", "PublishAclResult::Allow", "PublishAclResult::Rejected"},
     auth_info : SessionAuthInfos]

HookCalls ==
    AuthenticateCalls \cup SubscribeCalls \cup PublishCalls \cup KeepaliveCalls
        \cup JwtAclCalls \cup JwtAuthenticateCalls

\* No hook call is being followed.
NoCall == [phase |-> "idle"]
Called(in) == [phase |-> "called", in |-> in]
\* The call returned at time t: cache_before and cache_after are the entry of the
\* publish's (id, topic) around the call (None for the other hooks).
Returned(in, out, t, cache_before, cache_after) ==
    [phase |-> "returned", in |-> in, out |-> out, t |-> t,
     cache_before |-> cache_before, cache_after |-> cache_after]

\* Cache contents a publish check can meet for its key.
CacheSamples ==
    {EmptyMap} \cup
    {cache_set(EmptyMap, "s1", "t1", p, e) : p \in {Allow(FALSE), Deny, Ignore}, e \in {-1, 2}}

IsCalled(op) == authCall.phase = "called" /\ authCall.in.op = op

\* The hook bus calls the auth-http ClientAuthenticate handler.
RunHttpClientAuthenticate ==
    /\ IsCalled("HttpClientAuthenticate")
    /\ authCall' = Returned(authCall.in, HttpClientAuthenticate(authCall.in, now), now,
                            None, None)
    /\ UNCHANGED <<pluginVars, aclVars, grpcVars, extVars>>

\* The hook bus calls the auth-http ClientSubscribeCheckAcl handler.
RunHttpClientSubscribeCheckAcl ==
    /\ IsCalled("HttpClientSubscribeCheckAcl")
    /\ authCall' = Returned(authCall.in, HttpClientSubscribeCheckAcl(authCall.in, now), now,
                            None, None)
    /\ UNCHANGED <<pluginVars, aclVars, grpcVars, extVars>>

\* The hook bus calls the auth-http MessagePublishCheckAcl handler and no other
\* handler runs before it returns.
RunHttpMessagePublishCheckAcl ==
    /\ IsCalled("HttpMessagePublishCheckAcl")
    /\ LET r == HttpMessagePublishCheckAcl(authCall.in, caches, now)
       IN  /\ caches' = r.caches
           /\ authCall' = Returned(authCall.in, r.out, now,
                                   cache_get(caches, authCall.in.id, authCall.in.topic),
                                   cache_get(r.caches, authCall.in.id, authCall.in.topic))
    /\ UNCHANGED <<pluginVars, now, online, checks, issued, lastCheck, lastSet, grpcVars, extVars>>

\* The hook bus calls the ClientKeepalive handler of auth-http or auth-jwt.
RunClientKeepalive ==
    /\ IsCalled("HttpClientKeepalive") \/ IsCalled("JwtClientKeepalive")
    /\ authCall' = Returned(authCall.in,
                            ClientKeepalive(authCall.in, now,
                                            IF authCall.in.op = "HttpClientKeepalive"
                                            THEN "Http Auth expired" ELSE "JWT Auth expired"),
                            now, None, None)
    /\ UNCHANGED <<pluginVars, aclVars, grpcVars, extVars>>

\* The hook bus calls the auth-jwt ClientSubscribeCheckAcl handler.
RunJwtClientSubscribeCheckAcl ==
    /\ IsCalled("JwtClientSubscribeCheckAcl")
    /\ authCall' = Returned(authCall.in, JwtClientSubscribeCheckAcl(authCall.in, now), now,
                            None, None)
    /\ UNCHANGED <<pluginVars, aclVars, grpcVars, extVars>>

\* The hook bus calls the auth-jwt MessagePublishCheckAcl handler.
RunJwtMessagePublishCheckAcl ==
    /\ IsCalled("JwtMessagePublishCheckAcl")
    /\ authCall' = Returned(authCall.in, JwtMessagePublishCheckAcl(authCall.in, now), now,
                            None, None)
    /\ UNCHANGED <<pluginVars, aclVars, grpcVars, extVars>>

\* The hook bus calls the auth-jwt ClientAuthenticate handler.
RunJwtClientAuthenticate ==
    /\ IsCalled("JwtClientAuthenticate")
    /\ authCall' = Returned(authCall.in, JwtClientAuthenticate(authCall.in, now), now,
                            None, None)
    /\ UNCHANGED <<pluginVars, aclVars, grpcVars, extVars>>

NextAuth ==
    \/ RunHttpClientAuthenticate
    \/ RunHttpClientSubscribeCheckAcl
    \/ RunHttpMessagePublishCheckAcl
    \/ RunClientKeepalive
    \/ RunJwtClientSubscribeCheckAcl
    \/ RunJwtMessagePublishCheckAcl
    \/ RunJwtClientAuthenticate

(***************************************************************************)
(* Cluster gRPC layer: rmqtt/src/grpc.rs                                   *)
(***************************************************************************)
NodeIds == {1, 2, 3}
MESSAGE_TYPE_MESSAGE_GET == 22
MessageTypes == {MESSAGE_TYPE_MESSAGE_GET, 9, 1001}

\* enum Message, in declaration order; bincode writes the variant's position.
MessageVariants ==
    <<"Forwards", "ForwardsTo", "Kick", "GetRetains", "SubscriptionsSearch",
      "SubscriptionsGet", "RoutesGet", "RoutesGetBy", "NumberOfClients", "NumberOfSessions",
      "Online", "SessionStatus", "MessageGet", "Data">>

\* enum MessageReply, in declaration order.
MessageReplyVariants ==
    <<"Success", "Forwards", "Error", "Kick", "GetRetains", "SubscriptionsSearch",
      "SubscriptionsGet", "RoutesGet", "RoutesGetBy", "NumberOfClients", "NumberOfSessions",
      "Online", "SessionStatus", "MessageGet", "Data">>

\* The u32 variant index bincode writes for an enum value.
VariantIndex(variants, kind) == (CHOOSE i \in 1..Len(variants) : variants[i] = kind) - 1

\* A Message: its variant and its fields, the fields standing as one value.
Message(kind, arg) == [kind |-> kind, arg |-> arg]
MessageArgs == {"c1", "c2"}
Messages == {Message(MessageVariants[i], a) : i \in 1..Len(MessageVariants), a \in MessageArgs}

\* A MessageReply: its variant, with the count or the text it carries.
MessageReply(kind, n, text) == [kind |-> kind, n |-> n, text |-> text]
NoReply == MessageReply("none", 0, "")
Unit == MessageReply("()", 0, "")

\* Result<T>
Ok(r) == [ok |-> TRUE, v |-> r, e |-> ""]
Err(e) == [ok |-> FALSE, v |-> NoReply, e |-> e]

\* Message::encode: bincode::serialize(&(typ, self)).
Message_encode(msg, typ) == <<typ, VariantIndex(MessageVariants, msg.kind), msg.arg>>

\* A decoder that takes the variant index for a position counted from one.
Message_decode_one_based(data) ==
    IF Len(data) = 3 /\ data[2] \in 1..Len(MessageVariants)
    THEN [ok |-> TRUE, typ |-> data[1], msg |-> Message(MessageVariants[data[2]], data[3])]
    ELSE [ok |-> FALSE, typ |-> 0, msg |-> Message("none", "")]

\* Message::decode: bincode::deserialize::<(MessageType, Message)>.
Message_decode(data) ==
    IF Len(data) = 3 /\ data[2] \in 0..(Len(MessageVariants) - 1)
    THEN [ok |-> TRUE, typ |-> data[1], msg |-> Message(MessageVariants[data[2] + 1], data[3])]
    ELSE [ok |-> FALSE, typ |-> 0, msg |-> Message("none", "")]

\* MessageReply::encode: bincode::serialize(self).
MessageReply_encode(r) == <<VariantIndex(MessageReplyVariants, r.kind), r.n, r.text>>

\* MessageReply::decode: bincode::deserialize::<MessageReply>.
MessageReply_decode(data) ==
    IF Len(data) = 3 /\ data[1] \in 0..(Len(MessageReplyVariants) - 1)
    THEN Ok(MessageReply(MessageReplyVariants[data[1] + 1], data[2], data[3]))
    ELSE Err("decode")

\* What awaiting a mailbox's send yields: the reply bytes, the transport's error, or
\* tokio::time::timeout's Elapsed.
NoWire == [t |-> "none", bytes |-> <<>>]
WireReply(bytes) == [t |-> "reply", bytes |-> bytes]
WireError == [t |-> "error", bytes |-> <<>>]
WireElapsed == [t |-> "elapsed", bytes |-> <<>>]

\* Bytes that are no MessageReply: an unknown variant index.
Garbage == <<99, 0, "">>

\* The replies a peer's handler chain sends: node n reports 6 + n clients.
PeerReplies(n) == {MessageReply("Error", 0, "x"), MessageReply("NumberOfClients", 6 + n, "")}

\* The outcomes of a request whose timer never fires.
WireOutcomes_untimed(n, timeout) ==
    {WireReply(MessageReply_encode(r)) : r \in PeerReplies(n)}
        \cup {WireReply(Garbage), WireError}

\* Every outcome of a request to node n; Elapsed needs a timeout.
WireOutcomes(n, timeout) ==
    {WireReply(MessageReply_encode(r)) : r \in PeerReplies(n)}
        \cup {WireReply(Garbage), WireError}
        \cup (IF timeout THEN {WireElapsed} ELSE {})

\* GrpcClient::_send_message after the request is encoded: `??` on the timeout and the
\* mailbox, then MessageReply::decode.
send_message_result(wire) ==
    CASE wire.t = "elapsed" -> Err("timeout")
      [] wire.t = "error" -> Err("transport")
      [] OTHER -> MessageReply_decode(wire.bytes)

\* GrpcClient::_notify after the request is encoded.
notify_result(wire) ==
    CASE wire.t = "elapsed" -> Err("timeout")
      [] wire.t = "error" -> Err("transport")
      [] OTHER -> Ok(Unit)

\* A call of send_message or notify: the future's position, and what it was given.
Future(st, n, op, timeout, wire, ret) ==
    [st |-> st, node |-> n, op |-> op, timeout |-> timeout, wire |-> wire, ret |-> ret]
NoTask == Future("none", 0, "none", FALSE, NoWire, Err("none"))
InProgress(f) == f.st \in {"pending", "ready"}

\* send_message / notify entry: active_tasks.inc().
active_tasks_enter(active, n) == [active EXCEPT ![n] = @ + 1]

\* The defer! guard: active_tasks.dec() when the call's scope is left, by return or by drop.
active_tasks_leak(active, n) == active

active_tasks_exit(active, n) == [active EXCEPT ![n] = @ - 1]

\* The call's first poll: the counter, then msg.encode(typ)?, then the mailbox.
call_enter(n, op, timeout, encodes) ==
    IF encodes
    THEN Future("pending", n, op, timeout, NoWire, Err("none"))
    ELSE Future("done", n, op, FALSE, NoWire, Err("encode"))

\* The poll that finds the mailbox's outcome: the call returns.
call_return(f) ==
    Future("done", f.node, f.op, FALSE, NoWire,
           IF f.op = "notify" THEN notify_result(f.wire) ELSE send_message_result(f.wire))

\* The call's future is dropped before it returned.
call_drop(f) == Future("dropped", f.node, f.op, FALSE, NoWire, Err("none"))

\* The counter after the call's first poll.
active_after_enter(active, n, encodes) ==
    IF encodes THEN active_tasks_enter(active, n)
    ELSE active_tasks_exit(active_tasks_enter(active, n), n)

TaskIds == 1..MaxTasks
AllWireOutcomes == UNION {WireOutcomes(n, TRUE) : n \in NodeIds}
ClientOps == {"send_message", "notify"}

\* A caller awaits client.send_message(..) or client.notify(..) on node n's client.
StartTask(i, n, op, timeout, encodes) ==
    /\ tasks[i] = NoTask
    /\ tasks' = [tasks EXCEPT ![i] = call_enter(n, op, timeout, encodes)]
    /\ active_tasks' = active_after_enter(active_tasks, n, encodes)
    /\ UNCHANGED <<broadcastVars, served, pluginVars, aclVars, authVars, extVars>>

\* The mailbox's outcome for a pending call arrives.
TaskOutcome(i, wire) ==
    /\ tasks[i].st = "pending"
    /\ wire \in WireOutcomes(tasks[i].node, tasks[i].timeout)
    /\ tasks' = [tasks EXCEPT ![i] = [@ EXCEPT !.st = "ready", !.wire = wire]]
    /\ UNCHANGED <<active_tasks, broadcastVars, served, pluginVars, aclVars, authVars, extVars>>

\* The call is polled again and returns.
TaskReturn(i) ==
    /\ tasks[i].st = "ready"
    /\ tasks' = [tasks EXCEPT ![i] = call_return(@)]
    /\ active_tasks' = active_tasks_exit(active_tasks, tasks[i].node)
    /\ UNCHANGED <<broadcastVars, served, pluginVars, aclVars, authVars, extVars>>

\* The caller drops the call's future before it returned.
TaskDrop(i) ==
    /\ InProgress(tasks[i])
    /\ tasks' = [tasks EXCEPT ![i] = call_drop(@)]
    /\ active_tasks' = active_tasks_exit(active_tasks, tasks[i].node)
    /\ UNCHANGED <<broadcastVars, served, pluginVars, aclVars, authVars, extVars>>

\* The caller is done with a finished call.
TaskForget(i) ==
    /\ tasks[i].st \in {"done", "dropped"}
    /\ tasks' = [tasks EXCEPT ![i] = NoTask]
    /\ UNCHANGED <<active_tasks, broadcastVars, served, pluginVars, aclVars, authVars, extVars>>

NextGrpcClient ==
    \/ \E i \in TaskIds, n \in NodeIds, op \in ClientOps, timeout \in BOOLEAN,
          encodes \in BOOLEAN : StartTask(i, n, op, timeout, encodes)
    \/ \E i \in TaskIds, wire \in AllWireOutcomes : TaskOutcome(i, wire)
    \/ \E i \in TaskIds : TaskReturn(i)
    \/ \E i \in TaskIds : TaskDrop(i)
    \/ \E i \in TaskIds : TaskForget(i)

\* struct MessageBroadcaster, with the call made on it and the caller's check_fn.
Broadcaster(call, grpc_clients, msg_type, msg, timeout, accept) ==
    [call |-> call, grpc_clients |-> grpc_clients, msg_type |-> msg_type, msg |-> msg,
     timeout |-> timeout, accept |-> accept]
NoBroadcast == Broadcaster("none", <<>>, 0, Message("none", ""), FALSE, "none")

\* What join_all or select_ok returned: join_all's Vec, select_ok's Result.
NoReturn == [done |-> FALSE, entries |-> <<>>, value |-> Err("none")]
Returned_join_all(entries) == [done |-> TRUE, entries |-> entries, value |-> Err("none")]
Returned_select_ok(value) == [done |-> TRUE, entries |-> <<>>, value |-> value]

\* grpc_clients.iter(): a HashMap's iteration order, the same for the map's lifetime.
\* MessageBroadcaster::new asserts the map is not empty.
GrpcClientsOrders == {<<1, 2, 3>>, <<3, 1, 2>>, <<2, 3>>, <<1>>}

\* The (type, message) pairs broadcast, and the reply variants a check_fn accepts.
BroadcastRequests ==
    {<<MESSAGE_TYPE_MESSAGE_GET, Message("MessageGet", "c1")>>,
     <<9, Message("NumberOfClients", "c2")>>}
AcceptKinds == {"NumberOfClients", "MessageGet"}
PeerIndices == UNION {1..Len(c) : c \in GrpcClientsOrders}

\* The caller's check_fn: Ok with the reply of the variant it expects, Err otherwise.
check_fn(accept, r) == IF r.kind = accept THEN Ok(r) ELSE Err("rejected")

\* MessageBroadcaster::send: check_fn on a reply, the error as it is.
send(ret, accept) == IF ret.ok THEN check_fn(accept, ret.v) ELSE Err(ret.e)

\* The first poll of every sender, in grpc_clients order.
RECURSIVE enter_all(_, _, _)
enter_all(active, clients, encodes) ==
    IF clients = <<>> THEN active
    ELSE enter_all(active_after_enter(active, Head(clients), encodes), Tail(clients), encodes)

first_poll(b, encodes) ==
    [i \in 1..Len(b.grpc_clients) |->
        call_enter(b.grpc_clients[i], "send_message", b.timeout, encodes)]

\* The requests the first poll puts into the peers' duplex mailboxes.
mailbox_after(mail, b, encodes) ==
    [n \in NodeIds |->
        IF encodes /\ \E i \in 1..Len(b.grpc_clients) : b.grpc_clients[i] = n
        THEN Append(mail[n], Message_encode(b.msg, b.msg_type))
        ELSE mail[n]]

Indices(s) == 1..Len(s)
AllDone(s) == \A i \in Indices(s) : s[i].st = "done"
OneToN(n) == [i \in 1..n |-> i]

\* One poll of futures::future::join_all: every sender whose outcome is there returns.
RECURSIVE join_all_poll(_, _)
join_all_poll(s, i) ==
    IF i > Len(s.senders) THEN s
    ELSE IF s.senders[i].st = "ready"
         THEN join_all_poll([senders |-> [s.senders EXCEPT ![i] = call_return(@)],
                             active |-> active_tasks_exit(s.active, s.senders[i].node),
                             completed |-> Append(s.completed, i)], i + 1)
         ELSE join_all_poll(s, i + 1)

\* join_all's output once every sender returned: the senders' outputs by position.
join_all_output_ok_only(clients, s) ==
    SelectSeq([i \in Indices(s) |-> <<clients[i], s[i].ret>>], LAMBDA en : en[2].ok)

join_all_output(clients, s) == [i \in Indices(s) |-> <<clients[i], s[i].ret>>]

\* F(x) with x evaluated once, before F: Rust evaluates arguments eagerly.
Eager(F(_), x) == CHOOSE y \in {F(v) : v \in {x}} : TRUE

\* Dropping the senders select_ok did not take: each one's guard runs.
drop_rest(s) ==
    [senders |-> [i \in Indices(s.senders) |->
                    IF InProgress(s.senders[i])
                    THEN call_drop(s.senders[i]) ELSE s.senders[i]],
     active |-> [n \in NodeIds |->
                    IF \E i \in Indices(s.senders) :
                          InProgress(s.senders[i]) /\ s.senders[i].node = n
                    THEN active_tasks_exit(s.active, n)[n] ELSE s.active[n]],
     completed |-> s.completed,
     out |-> s.out]

\* A race that takes whichever sender it finds, successful or not.
select_ok_takes_last(s, accept) ==
    LET ready == {i \in Indices(s.senders) : s.senders[i].st = "ready"}
    IN  IF ready = {} THEN s
        ELSE LET i == CHOOSE j \in ready : \A k \in ready : j >= k
                 f == call_return(s.senders[i])
             IN  drop_rest([senders |-> [s.senders EXCEPT ![i] = f],
                            active |-> active_tasks_exit(s.active, f.node),
                            completed |-> Append(s.completed, i),
                            out |-> Returned_select_ok(send(f.ret, accept))])

\* One poll of futures::future::select_ok: the first sender, in list order, whose outcome
\* is there returns; Ok ends the race, Err leaves it to the remaining senders.
RECURSIVE select_ok_poll(_, _)
select_ok_poll(s, accept) ==
    LET ready == {i \in Indices(s.senders) : s.senders[i].st = "ready"}
    IN  IF ready = {} THEN s
        ELSE LET i == CHOOSE j \in ready : \A k \in ready : j <= k
                 taken(f) ==
                     LET r == send(f.ret, accept)
                         s1 == [senders |-> [s.senders EXCEPT ![i] = f],
                                active |-> active_tasks_exit(s.active, f.node),
                                completed |-> Append(s.completed, i),
                                out |-> s.out]
                         rest == {j \in Indices(s1.senders) : InProgress(s1.senders[j])}
                     IN  IF r.ok \/ rest = {}
                         THEN Eager(drop_rest, [s1 EXCEPT !.out = Returned_select_ok(r)])
                         ELSE Eager(LAMBDA x : select_ok_poll(x, accept), s1)
             IN  Eager(taken, call_return(s.senders[i]))

\* MessageBroadcaster::new(..).join_all() up to its first await.
JoinAll(clients, req, timeout, encodes) ==
    /\ broadcast = NoBroadcast
    /\ LET b == Broadcaster("join_all", clients, req[1], req[2], timeout, "none")
           s == first_poll(b, encodes)
       IN  /\ broadcast' = b
           /\ senders' = s
           /\ active_tasks' = enter_all(active_tasks, clients, encodes)
           /\ mailed' = mailbox_after(mailed, b, encodes)
           /\ completed' = IF encodes THEN <<>> ELSE OneToN(Len(clients))
           /\ returned' = IF encodes THEN NoReturn
                          ELSE Returned_join_all(join_all_output(clients, s))
    /\ UNCHANGED <<discarded, tasks, served, pluginVars, aclVars, authVars, extVars>>

\* MessageBroadcaster::new(..).select_ok(check_fn) up to its first await.
SelectOk(clients, req, timeout, accept, encodes) ==
    /\ broadcast = NoBroadcast
    /\ LET b == Broadcaster("select_ok", clients, req[1], req[2], timeout, accept)
           s == first_poll(b, encodes)
       IN  /\ broadcast' = b
           /\ senders' = s
           /\ active_tasks' = enter_all(active_tasks, clients, encodes)
           /\ mailed' = mailbox_after(mailed, b, encodes)
           /\ completed' = IF encodes THEN <<>> ELSE OneToN(Len(clients))
           /\ returned' = IF encodes THEN NoReturn
                          ELSE Returned_select_ok(send(s[Len(s)].ret, accept))
    /\ UNCHANGED <<discarded, tasks, served, pluginVars, aclVars, authVars, extVars>>

\* A peer's reply, the transport's error or the timeout reaches a pending sender.
PeerOutcome(i, wire) ==
    /\ ~returned.done
    /\ i \in Indices(senders)
    /\ senders[i].st = "pending"
    /\ wire \in WireOutcomes(senders[i].node, senders[i].timeout)
    /\ senders' = [senders EXCEPT ![i] = [@ EXCEPT !.st = "ready", !.wire = wire]]
    /\ UNCHANGED <<broadcast, completed, mailed, returned, discarded, active_tasks, tasks,
                   served, pluginVars, aclVars, authVars, extVars>>

\* The task awaiting join_all is polled.
PollJoinAll ==
    /\ broadcast.call = "join_all"
    /\ ~returned.done
    /\ \E i \in Indices(senders) : senders[i].st = "ready"
    /\ LET s == join_all_poll([senders |-> senders, active |-> active_tasks,
                               completed |-> completed], 1)
       IN  /\ senders' = s.senders
           /\ active_tasks' = s.active
           /\ completed' = s.completed
           /\ returned' = IF AllDone(s.senders)
                          THEN Returned_join_all(join_all_output(broadcast.grpc_clients,
                                                                 s.senders))
                          ELSE NoReturn
    /\ UNCHANGED <<broadcast, mailed, discarded, tasks, served, pluginVars, aclVars, authVars, extVars>>

\* The task awaiting select_ok is polled.
PollSelectOk ==
    /\ broadcast.call = "select_ok"
    /\ ~returned.done
    /\ \E i \in Indices(senders) : senders[i].st = "ready"
    /\ LET s == select_ok_poll([senders |-> senders, active |-> active_tasks,
                                completed |-> completed, out |-> NoReturn],
                               broadcast.accept)
       IN  /\ senders' = s.senders
           /\ active_tasks' = s.active
           /\ completed' = s.completed
           /\ returned' = s.out
    /\ UNCHANGED <<broadcast, mailed, discarded, tasks, served, pluginVars, aclVars, authVars, extVars>>

\* A peer answers a sender that select_ok dropped: nobody receives the reply.
LateReply(i) ==
    /\ i \in Indices(senders)
    /\ senders[i].st = "dropped"
    /\ i \notin discarded
    /\ discarded' = discarded \cup {i}
    /\ UNCHANGED <<broadcast, senders, completed, mailed, returned, active_tasks, tasks,
                   served, pluginVars, aclVars, authVars, extVars>>

NextBroadcast ==
    \/ \E clients \in GrpcClientsOrders, req \in BroadcastRequests, timeout \in BOOLEAN,
          encodes \in BOOLEAN : JoinAll(clients, req, timeout, encodes)
    \/ \E clients \in GrpcClientsOrders, req \in BroadcastRequests, timeout \in BOOLEAN,
          accept \in AcceptKinds, encodes \in BOOLEAN :
          SelectOk(clients, req, timeout, accept, encodes)
    \/ \E i \in PeerIndices, wire \in AllWireOutcomes : PeerOutcome(i, wire)
    \/ PollJoinAll
    \/ PollSelectOk
    \/ \E i \in PeerIndices : LateReply(i)

\* What message_mgr().get(..) and the hook manager's grpc_message_received return.
StoreResults == {Ok(MessageReply("MessageGet", 2, "")), Err("storage")}
HookResults == {Ok(MessageReply("Success", 0, "")), Err("hook")}

\* GrpcServer::grpc_message_received: the match on (typ, msg).
grpc_message_received_by_message(typ, msg, stored, hooked) ==
    IF msg.kind = "MessageGet"
    THEN [route |-> "message_mgr",
          reply |-> IF stored.ok THEN stored ELSE Ok(MessageReply("Error", 0, stored.e))]
    ELSE [route |-> "hook_bus", reply |-> hooked]

grpc_message_received(typ, msg, stored, hooked) ==
    IF typ = MESSAGE_TYPE_MESSAGE_GET /\ msg.kind = "MessageGet"
    THEN [route |-> "message_mgr",
          reply |-> IF stored.ok THEN stored ELSE Ok(MessageReply("Error", 0, stored.e))]
    ELSE [route |-> "hook_bus", reply |-> hooked]

\* One request the server handled: what it decoded, where it went, what goes back.
Served(req, typ, msg, route, ok, bytes) ==
    [req |-> req, typ |-> typ, msg |-> msg, route |-> route, ok |-> ok, bytes |-> bytes]
NoServed == Served(<<>>, 0, Message("none", ""), "none", FALSE, <<>>)

\* GrpcServer::on_recv_message: Message::decode(&req)?, grpc_message_received(..)?,
\* reply.encode()?.
on_recv_message(req, stored, hooked) ==
    LET d == Message_decode(req)
        r == grpc_message_received(d.typ, d.msg, stored, hooked)
    IN  IF ~d.ok THEN Served(req, 0, d.msg, "none", FALSE, <<>>)
        ELSE IF ~r.reply.ok THEN Served(req, d.typ, d.msg, r.route, FALSE, <<>>)
        ELSE Served(req, d.typ, d.msg, r.route, TRUE, MessageReply_encode(r.reply.v))

\* The requests a peer can send: any message under any type code, or bytes that are none.
ServerRequests == {Message_encode(m, t) : m \in Messages, t \in MessageTypes} \cup {Garbage}

\* The server's executor runs on_recv_message on one received request.
ServerRecv(req, stored, hooked) ==
    /\ served' = on_recv_message(req, stored, hooked)
    /\ UNCHANGED <<active_tasks, tasks, broadcastVars, pluginVars, aclVars, authVars, extVars>>

NextGrpcServer ==
    \E req \in ServerRequests, stored \in StoreResults, hooked \in HookResults :
        ServerRecv(req, stored, hooked)

InitGrpc ==
    /\ active_tasks = [n \in NodeIds |-> 0]
    /\ tasks = [i \in TaskIds |-> NoTask]
    /\ broadcast = NoBroadcast
    /\ senders = <<>>
    /\ completed = <<>>
    /\ mailed = [n \in NodeIds |-> <<>>]
    /\ returned = NoReturn
    /\ discarded = {}
    /\ served = NoServed

NextGrpc == NextGrpcClient \/ NextBroadcast \/ NextGrpcServer

(***************************************************************************)
(* Envelope codec on its own: rmqtt/src/grpc.rs                            *)
(***************************************************************************)
\* One application of a pure function: the argument, the bytes or text in between, the
\* result, and how far the application has got.
Applied(fn, arg, mid, out, phase) ==
    [fn |-> fn, arg |-> arg, mid |-> mid, out |-> out, phase |-> phase]
NoApplied == Applied("none", <<>>, <<>>, <<>>, "none")

\* What goes into a codec: the value, and for an envelope its type code.
Encodable(typ, v) == [typ |-> typ, v |-> v]

\* Every MessageReply variant, with the counts and texts it can carry.
MessageReplies ==
    {MessageReply(MessageReplyVariants[i], n, text) :
        i \in 1..Len(MessageReplyVariants), n \in {0, 7}, text \in {"", "x"}}

\* The envelopes and the replies to encode.
EnvelopeInputs ==
    {Applied("Message", Encodable(t, m), <<>>, <<>>, "input") :
        t \in MessageTypes, m \in Messages}
EncodedReplyInputs ==
    {Applied("MessageReply", Encodable(0, r), <<>>, <<>>, "input") : r \in MessageReplies}

\* msg.encode(typ) / reply.encode()
Encode ==
    /\ applied.phase = "input"
    /\ applied.fn \in {"Message", "MessageReply"}
    /\ applied' = [applied EXCEPT
                      !.mid = IF applied.fn = "Message"
                              THEN Message_encode(applied.arg.v, applied.arg.typ)
                              ELSE MessageReply_encode(applied.arg.v),
                      !.phase = "encoded"]
    /\ UNCHANGED <<pluginVars, aclVars, authVars, grpcVars, hookVars, storageVars, lateVars>>

\* Message::decode(&bytes) / MessageReply::decode(&bytes)
Decode ==
    /\ applied.phase = "encoded"
    /\ applied' = [applied EXCEPT
                      !.out = IF applied.fn = "Message"
                              THEN Message_decode(applied.mid)
                              ELSE MessageReply_decode(applied.mid),
                      !.phase = "decoded"]
    /\ UNCHANGED <<pluginVars, aclVars, authVars, grpcVars, hookVars, storageVars, lateVars>>

NextCodec == Encode \/ Decode

(***************************************************************************)
(* Hook bus: the Handler contract of rmqtt/src/broker/hook.rs and the      *)
(* registry and dispatch the specification describes                      *)
(***************************************************************************)
HookTypes == {"ClientAuthenticate", "MessagePublishCheckAcl"}
Priorities == {0, 10}

\* What a handler's hook(param, acc) does: (proceed, new accumulator). The accumulator is
\* a HookResult, None when there is none.
HandlerReturn(proceed, acc) == [proceed |-> proceed, acc |-> acc]
Behaviours == {"commit_allow", "commit_deny", "pass_on", "pass_none", "set_and_pass"}
handler_hook(behaviour, acc) ==
    CASE behaviour = "commit_allow" -> HandlerReturn(FALSE, "Allow")
      [] behaviour = "commit_deny" -> HandlerReturn(FALSE, "NotAuthorized")
      [] behaviour = "pass_on" -> HandlerReturn(TRUE, acc)
      [] behaviour = "pass_none" -> HandlerReturn(TRUE, "None")
      [] OTHER -> HandlerReturn(TRUE, "Allow")

\* Hook handler entry {type, priority, handler}.
HookEntry(typ, priority, behaviour) == [typ |-> typ, priority |-> priority, behaviour |-> behaviour]

\* The chain of a type: its entries by descending priority, equal priorities in the
\* order they were registered. Entries are named by their position in the registry.
chain_ascending(reg, S) ==
    IF S = {} THEN <<>>
    ELSE LET RECURSIVE asc(_)
             asc(T) ==
                 IF T = {} THEN <<>>
                 ELSE LET i == CHOOSE i \in T : \A j \in T :
                                   \/ reg[i].priority < reg[j].priority
                                   \/ reg[i].priority = reg[j].priority /\ i <= j
                      IN  <<i>> \o asc(T \ {i})
         IN  asc(S)

RECURSIVE chain(_, _)
chain(reg, S) ==
    IF S = {} THEN <<>>
    ELSE LET i == CHOOSE i \in S : \A j \in S :
                      \/ reg[i].priority > reg[j].priority
                      \/ reg[i].priority = reg[j].priority /\ i <= j
         IN  <<i>> \o chain(reg, S \ {i})

OfType(reg, typ) == {i \in 1..Len(reg) : reg[i].typ = typ}

\* One dispatch: the handlers invoked in order, what each returned, the final accumulator.
Dispatch(typ, invoked, returns, result) ==
    [typ |-> typ, invoked |-> invoked, returns |-> returns, result |-> result]
NoDispatch == Dispatch("none", <<>>, <<>>, "None")

\* A walk that invokes every handler of the chain, whatever they return.
RECURSIVE walk_to_the_end(_, _, _, _)
walk_to_the_end(reg, order, k, d) ==
    IF k > Len(order) THEN d
    ELSE LET r == handler_hook(reg[order[k]].behaviour, d.result)
         IN  walk_to_the_end(reg, order, k + 1,
                             Dispatch(d.typ, Append(d.invoked, order[k]),
                                      Append(d.returns, r), r.acc))

\* dispatch's walk: each handler gets (parameter, accumulator); proceed = false ends the
\* chain with that handler's accumulator.
RECURSIVE walk(_, _, _, _)
walk(reg, order, k, d) ==
    IF k > Len(order) THEN d
    ELSE LET r == handler_hook(reg[order[k]].behaviour, d.result)
             d1 == Dispatch(d.typ, Append(d.invoked, order[k]), Append(d.returns, r), r.acc)
         IN  IF r.proceed THEN walk(reg, order, k + 1, d1) ELSE d1

\* register(type, priority, handler)
RegisterHandler(typ, priority, behaviour) ==
    /\ Len(handlers) < MaxHandlers
    /\ handlers' = Append(handlers, HookEntry(typ, priority, behaviour))
    /\ dispatched' = NoDispatch
    /\ UNCHANGED <<pluginVars, aclVars, authVars, grpcVars, applied, storageVars, lateVars>>

\* dispatch(type, parameter)
DispatchHook(typ) ==
    /\ dispatched' = walk(handlers, chain(handlers, OfType(handlers, typ)), 1,
                          Dispatch(typ, <<>>, <<>>, "None"))
    /\ UNCHANGED <<handlers, pluginVars, aclVars, authVars, grpcVars, applied, storageVars, lateVars>>

NextHooks ==
    \/ \E typ \in HookTypes, priority \in Priorities, behaviour \in Behaviours :
          RegisterHandler(typ, priority, behaviour)
    \/ \E typ \in HookTypes : DispatchHook(typ)

InitHooks == handlers = <<>> /\ dispatched = NoDispatch

(***************************************************************************)
(* Cluster hook handler: rmqtt-plugins/rmqtt-cluster-raft/src/handler.rs   *)
(***************************************************************************)
\* shared.message_type: the type code the cluster plugin's own envelopes carry.
ClusterMessageType == 1001

\* The accumulator: Option<HookResult>, here None or GrpcMessageReply(Result<MessageReply>).
NoneAcc == [kind |-> "None", res |-> Err("none")]
GrpcMessageReply(res) == [kind |-> "GrpcMessageReply", res |-> res]

\* hook's outcome: the (proceed, accumulator) pair it returns, or a panic.
HookReturn(proceed, acc) == [panicked |-> FALSE, proceed |-> proceed, acc |-> acc]
Panic == [panicked |-> TRUE, proceed |-> FALSE, acc |-> NoneAcc]

\* Parameter. The session parameters carry nothing the return value depends on.
GrpcMessageReceived(typ, msg) == [kind |-> "GrpcMessageReceived", typ |-> typ, msg |-> msg]
OtherParameter(kind) == [kind |-> kind, typ |-> 0, msg |-> Message("none", "")]
Parameters ==
    {GrpcMessageReceived(t, m) : t \in MessageTypes, m \in Messages}
        \cup {OtherParameter(k) : k \in {"ClientDisconnected", "SessionTerminated",
                                         "ClientConnected"}}

\* What the calls the handler makes come back with: entry.kick, RaftGrpcMessage::decode,
\* raft_mailbox.status, RaftGrpcMessageReply::encode.
ClusterEnvs ==
    [kick_ok : BOOLEAN, data_decodes : BOOLEAN, status_ok : BOOLEAN, encode_ok : BOOLEAN]

\* The Data arm: RaftGrpcMessage::decode, then the raft status, encoded.
data_reply(env) ==
    IF ~env.data_decodes THEN Ok(MessageReply("Error", 0, "decode"))
    ELSE IF ~env.status_ok THEN Ok(MessageReply("Error", 0, "status"))
    ELSE IF ~env.encode_ok THEN Ok(MessageReply("Error", 0, "encode"))
    ELSE Ok(MessageReply("Data", 0, "status"))

\* HookHandler::hook
cluster_hook(param, acc, env) ==
    IF param.kind # "GrpcMessageReceived" THEN HookReturn(TRUE, acc)
    ELSE IF ClusterMessageType # param.typ THEN HookReturn(TRUE, acc)
    ELSE CASE param.msg.kind = "ForwardsTo" -> HookReturn(FALSE, acc)
           [] param.msg.kind = "Kick" ->
                HookReturn(FALSE, GrpcMessageReply(IF env.kick_ok
                                                   THEN Ok(MessageReply("Kick", 0, ""))
                                                   ELSE Err("kick")))
           [] param.msg.kind = "GetRetains" -> Panic
           [] param.msg.kind = "SubscriptionsGet" ->
                HookReturn(FALSE, GrpcMessageReply(Ok(MessageReply("SubscriptionsGet", 0, ""))))
           [] param.msg.kind = "Data" -> HookReturn(FALSE, GrpcMessageReply(data_reply(env)))
           [] OTHER -> HookReturn(TRUE, acc)

\* The hook bus calls the cluster handler.
RunClusterHook ==
    /\ applied.fn = "cluster_hook"
    /\ applied.phase = "input"
    /\ applied' = [applied EXCEPT
                      !.out = cluster_hook(applied.arg.param, applied.arg.acc, applied.arg.env),
                      !.phase = "returned"]
    /\ UNCHANGED <<pluginVars, aclVars, authVars, grpcVars, hookVars, storageVars, lateVars>>

NextClusterHook == RunClusterHook

ClusterHookInputs ==
    {Applied("cluster_hook", [param |-> p, acc |-> a, env |-> e], <<>>, <<>>, "input") :
        p \in Parameters,
        a \in {NoneAcc, GrpcMessageReply(Ok(MessageReply("Success", 0, "")))},
        e \in ClusterEnvs}

(***************************************************************************)
(* Placeholder substitution: rmqtt-auth-http/src/lib.rs, AuthHandler::replaces *)
(***************************************************************************)
\* Strings are sequences of characters. str::replace(from, to) for a two-character
\* pattern: every match, left to right, the text put in not being matched again.
RECURSIVE str_replace(_, _, _)
str_replace(v, from, to) ==
    IF Len(v) < 2 THEN v
    ELSE IF SubSeq(v, 1, 2) = from THEN to \o str_replace(SubSeq(v, 3, Len(v)), from, to)
    ELSE <<Head(v)>> \o str_replace(Tail(v), from, to)

\* Option<String> / Option<u8>: the one-element sequence of the value, or the empty one.
SomeOf(x) == <<x>>
NoneOf == <<>>
OrEmpty(opt) == IF opt = NoneOf THEN <<>> ELSE opt[1]

\* itoa::Buffer::format(protocol) for the protocol levels 3, 4 and 5.
itoa(n) == <<CASE n = 3 -> "3" [] n = 4 -> "4" [] OTHER -> "5">>

\* The values put in for the placeholders, in the order replaces puts them in; a
\* placeholder of an absent protocol is left alone.
Substitutions(in) ==
    <<[from |-> <<"%", "u">>, on |-> TRUE, to |-> OrEmpty(in.username)],
      [from |-> <<"%", "c">>, on |-> TRUE, to |-> in.client_id],
      [from |-> <<"%", "a">>, on |-> TRUE, to |-> OrEmpty(in.remote_addr)],
      [from |-> <<"%", "P">>, on |-> TRUE, to |-> OrEmpty(in.password)],
      [from |-> <<"%", "r">>, on |-> in.protocol # NoneOf,
       to |-> IF in.protocol = NoneOf THEN <<>> ELSE itoa(in.protocol[1])],
      [from |-> <<"%", "A">>, on |-> TRUE,
       to |-> IF in.sub_or_pub = NoneOf THEN <<>> ELSE in.sub_or_pub[1].acl_type],
      [from |-> <<"%", "t">>, on |-> TRUE,
       to |-> IF in.sub_or_pub = NoneOf THEN <<>> ELSE in.sub_or_pub[1].topic]>>

\* AuthHandler::replaces on one value of params: one replace per placeholder, each on the
\* result of the one before.
RECURSIVE replace_chain(_, _, _)
replace_chain(v, subs, k) ==
    IF k > Len(subs) THEN v
    ELSE replace_chain(IF subs[k].on THEN str_replace(v, subs[k].from, subs[k].to) ELSE v,
                       subs, k + 1)

\* ByteString::try_from(password)? fails on bytes that are not UTF-8.
InvalidUtf8 == <<"invalid">>

replaces(v, in) ==
    IF in.password = SomeOf(InvalidUtf8) THEN [ok |-> FALSE, v |-> v]
    ELSE [ok |-> TRUE, v |-> replace_chain(v, Substitutions(in), 1)]

\* Configured parameter values, and the connect and request data put into them.
ParamValues ==
    {<<"%", "u">>, <<"%", "c">>, <<"%", "P">>, <<"%", "a">>, <<"%", "r">>, <<"%", "A">>,
     <<"%", "t">>, <<"u", "=", "%", "u", "&", "c", "=", "%", "c">>, <<"%", "%", "u">>,
     <<"x">>}
ReplacesInputs ==
    [username : {NoneOf, SomeOf(<<"a", "l">>), SomeOf(<<"%", "c">>), SomeOf(<<"%", "P">>),
                 SomeOf(<<"%", "t">>)},
     client_id : {<<"c", "1">>, <<"%", "t">>},
     remote_addr : {NoneOf, SomeOf(<<"i", "p">>)},
     password : {NoneOf, SomeOf(<<"p", "w">>), SomeOf(InvalidUtf8)},
     protocol : {NoneOf, SomeOf(4)},
     sub_or_pub : {NoneOf, SomeOf([acl_type |-> <<"1">>, topic |-> <<"t", "1">>]),
                   SomeOf([acl_type |-> <<"2">>, topic |-> <<"%", "u">>])}]

\* request() builds one parameter value.
RunReplaces ==
    /\ applied.fn = "replaces"
    /\ applied.phase = "input"
    /\ applied' = [applied EXCEPT !.out = replaces(applied.arg.v, applied.arg.in),
                                   !.phase = "returned"]
    /\ UNCHANGED <<pluginVars, aclVars, authVars, grpcVars, hookVars, storageVars, lateVars>>

NextReplaces == RunReplaces

(***************************************************************************)
(* Session storage: rmqtt-plugins/rmqtt-session-storage/src/lib.rs         *)
(***************************************************************************)
\* The names of the persisted records without their "map-" / "list-" prefix.
IdKeys == {"k1", "k2"}
\* map_iter() and list_iter() visit the records in one fixed order.
KeyOrder == <<"k1", "k2">>
ClientIds == {"a", "b"}
\* What reading one field of a map record gives: Ok(Some(v)), Ok(None) or Err.
OkSome(v) == [st |-> "some", v |-> v]
OkNone(v) == [st |-> "none", v |-> v]
ReadErr(v) == [st |-> "err", v |-> v]
Basic(client_id, lid) == [client_id |-> client_id, lid |-> lid]
NoBasic == Basic("", 0)
MqttDisconnect(some, session_expiry_interval) ==
    [some |-> some, session_expiry_interval |-> session_expiry_interval]
DisconnectInfo(disconnected_at, mqtt_disconnect) ==
    [disconnected_at |-> disconnected_at, mqtt_disconnect |-> mqtt_disconnect]
\* DisconnectInfo::new(last_time)
DisconnectInfo_new(last_time) == DisconnectInfo(last_time, MqttDisconnect(FALSE, 0))
\* One map record with its five named fields; exists is FALSE for a name not in storage.
MapRecord(BASIC, LAST_TIME, SESSION_SUB_MAP, DISCONNECT_INFO, INFLIGHT_MESSAGES) ==
    [exists |-> TRUE, BASIC |-> BASIC, LAST_TIME |-> LAST_TIME,
     SESSION_SUB_MAP |-> SESSION_SUB_MAP, DISCONNECT_INFO |-> DISCONNECT_INFO,
     INFLIGHT_MESSAGES |-> INFLIGHT_MESSAGES]
NoMap ==
    [exists |-> FALSE, BASIC |-> OkNone(NoBasic), LAST_TIME |-> OkNone(0),
     SESSION_SUB_MAP |-> OkNone(<<>>), DISCONNECT_INFO |-> OkNone(DisconnectInfo_new(0)),
     INFLIGHT_MESSAGES |-> OkNone(<<>>)]
\* One list record: readable says whether all::<OfflineMessageOptionType>() is Ok.
ListRecord(readable, items) == [exists |-> TRUE, readable |-> readable, items |-> items]
NoList == [exists |-> FALSE, readable |-> TRUE, items |-> <<>>]

\* Storage calls that return Err in this run of the broker, by name.
FaultPoints == {"map_remove", "list_remove", "Session_new", "send", "offline_restart",
                "entry_set"}
Faults == {{}} \cup {{f} : f \in FaultPoints}

\* A removal that returns Ok and leaves the record where it is.
remove_keeps(db, name, faults) == db

\* storage_db.map_remove(name): Err leaves the record where it is.
map_remove(db, name, faults) ==
    IF "map_remove" \in faults THEN db
    ELSE [db EXCEPT !.maps[name] = NoMap]

\* storage_db.list_remove(name)
list_remove(db, name, faults) ==
    IF "list_remove" \in faults THEN db
    ELSE [db EXCEPT !.lists[name] = NoList]

\* StoredSessionInfo::from(id_key, basic), then the setters of the fields that were read.
StoredSessionInfo(id_key, m) ==
    [id_key |-> id_key,
     basic |-> m.BASIC.v,
     last_time |-> IF m.LAST_TIME.st = "some" THEN m.LAST_TIME.v ELSE 0,
     subs |-> IF m.SESSION_SUB_MAP.st = "some" THEN m.SESSION_SUB_MAP.v ELSE <<>>,
     disconnect_info |-> IF m.DISCONNECT_INFO.st = "some" THEN m.DISCONNECT_INFO
                         ELSE OkNone(DisconnectInfo_new(0)),
     offline_messages |-> <<>>,
     inflight_messages |-> IF m.INFLIGHT_MESSAGES.st = "some" THEN m.INFLIGHT_MESSAGES.v
                           ELSE <<>>]

\* StoredSessionInfos::new(): no record for any client id.
NoInfos == [c \in ClientIds |-> <<>>]

\* StoredSessionInfos::add: the record joins the records of its client id.
add(infos, s_info) ==
    [infos EXCEPT ![s_info.basic.client_id] = Append(@, s_info)]

\* The id keys that have a stored-session record.
InfoKeys(infos) ==
    {infos[c][i].id_key : <<c, i>> \in {<<c, i>> \in ClientIds \X (1..Cardinality(IdKeys)) :
                                            i <= Len(infos[c])}}

\* StoredSessionInfos::set_offline_messages: the record of id_key takes the messages.
set_offline_messages(infos, id_key, msgs) ==
    [c \in ClientIds |->
        [i \in 1..Len(infos[c]) |->
            IF infos[c][i].id_key = id_key
            THEN [infos[c][i] EXCEPT !.offline_messages = msgs]
            ELSE infos[c][i]]]

\* The first of the records that no other record is more recent than.
latest(storeds) ==
    CHOOSE i \in 1..Len(storeds) :
        /\ \A j \in 1..Len(storeds) : storeds[j].last_time <= storeds[i].last_time
        /\ \A j \in 1..(i - 1) : storeds[j].last_time < storeds[i].last_time

\* The first of the records that no other record is older than.
oldest(storeds) ==
    CHOOSE i \in 1..Len(storeds) :
        /\ \A j \in 1..Len(storeds) : storeds[j].last_time >= storeds[i].last_time
        /\ \A j \in 1..(i - 1) : storeds[j].last_time > storeds[i].last_time

\* StoredSessionInfos::retain_latests: each client id keeps its most recent record.
retain_latests(infos) ==
    [c \in ClientIds |->
        IF Len(infos[c]) = 0 THEN <<>> ELSE <<infos[c][latest(infos[c])]>>]

\* The keys retain_latests returns: those of the records it dropped, in key order.
removed_keys(infos) ==
    SelectSeq(KeyOrder, LAMBDA k : k \in InfoKeys(infos) \ InfoKeys(retain_latests(infos)))

\* The scan of the map records named ks[from..], on storage db with records infos.
RECURSIVE scan_maps(_, _, _, _)
scan_maps(ks, db, infos, faults) ==
    IF ks = <<>> THEN [db |-> db, infos |-> infos]
    ELSE LET id_key == Head(ks)
             m == db.maps[id_key]
         IN  IF ~m.exists THEN scan_maps(Tail(ks), db, infos, faults)
             ELSE IF m.BASIC.st # "some"
             THEN scan_maps(Tail(ks), map_remove(db, id_key, faults), infos, faults)
             ELSE scan_maps(Tail(ks), db, add(infos, StoredSessionInfo(id_key, m)), faults)

\* The scan of the list records.
RECURSIVE scan_lists(_, _, _, _)
scan_lists(ks, db, infos, faults) ==
    IF ks = <<>> THEN [db |-> db, infos |-> infos]
    ELSE LET id_key == Head(ks)
             l == db.lists[id_key]
         IN  IF ~l.exists THEN scan_lists(Tail(ks), db, infos, faults)
             ELSE IF l.readable
             THEN IF id_key \in InfoKeys(infos)
                  THEN scan_lists(Tail(ks), db, set_offline_messages(infos, id_key, l.items),
                                  faults)
                  ELSE scan_lists(Tail(ks), list_remove(db, id_key, faults), infos, faults)
             ELSE scan_lists(Tail(ks), list_remove(db, id_key, faults), infos, faults)

\* The removals of the keys retain_latests returned; the first Err ends the load.
RECURSIVE remove_dropped(_, _, _)
remove_dropped(ks, db, faults) ==
    IF ks = <<>> THEN [db |-> db, ok |-> TRUE]
    ELSE IF "map_remove" \in faults THEN [db |-> db, ok |-> FALSE]
    ELSE IF "list_remove" \in faults
    THEN [db |-> map_remove(db, Head(ks), faults), ok |-> FALSE]
    ELSE remove_dropped(Tail(ks), list_remove(map_remove(db, Head(ks), faults), Head(ks), faults),
                        faults)

\* A load that removes from storage the records it retains.
load_removing_retained(db, faults) ==
    LET maps == scan_maps(KeyOrder, db, NoInfos, faults)
        lists == scan_lists(KeyOrder, maps.db, maps.infos, faults)
        retained == SelectSeq(KeyOrder, LAMBDA k : k \in InfoKeys(retain_latests(lists.infos)))
        removed == remove_dropped(retained, lists.db, faults)
    IN  [db |-> removed.db, infos |-> retain_latests(lists.infos), ok |-> removed.ok]

\* load_offline_session_infos: the storage and the records it leaves, and Ok or Err.
load_offline_session_infos(db, faults) ==
    LET maps == scan_maps(KeyOrder, db, NoInfos, faults)
        lists == scan_lists(KeyOrder, maps.db, maps.infos, faults)
        removed == remove_dropped(removed_keys(lists.infos), lists.db, faults)
    IN  [db |-> removed.db, infos |-> retain_latests(lists.infos), ok |-> removed.ok]

\* scx.listen_cfgs: the listeners configured in this run of the broker, by lid.
ListenCfgs == {[lid |-> 1, session_expiry_interval |-> 2, max_mqueue_len |-> 2]}
listen_cfg_get(lid) == {c \in ListenCfgs : c.lid = lid}

\* fitter.session_expiry_interval(mqtt_disconnect): the interval the client asked for
\* when it disconnected, or else the listener's.
fitter_session_expiry_interval(listen_cfg, mqtt_disconnect) ==
    IF mqtt_disconnect.some THEN mqtt_disconnect.session_expiry_interval
    ELSE listen_cfg.session_expiry_interval

\* disconnect_info.map(|d| d.disconnected_at).unwrap_or_default(), or last_time if <= 0
disconnected_at(disconnect_info, last_time) ==
    LET d == IF disconnect_info.st = "some" THEN disconnect_info.v.disconnected_at ELSE 0
    IN  IF d <= 0 THEN last_time ELSE d

\* session_expiry_interval(fitter, disconnect_info, last_time) at time t
session_expiry_interval(listen_cfg, disconnect_info, last_time, t) ==
    LET mqtt_disconnect == IF disconnect_info.st = "some"
                           THEN disconnect_info.v.mqtt_disconnect
                           ELSE MqttDisconnect(FALSE, 0)
    IN  fitter_session_expiry_interval(listen_cfg, mqtt_disconnect)
            - (t - disconnected_at(disconnect_info, last_time))

\* The first n elements of s, or all of s.
Take(s, n) == SubSeq(s, 1, IF Len(s) < n THEN Len(s) ELSE n)

\* Session::new with the stored subscriptions and disconnect info, the offline messages
\* its deliver queue accepts and the stored in-flight messages.
Session(stored, listen_cfg) ==
    [id_key |-> stored.id_key,
     client_id |-> stored.basic.client_id,
     subs |-> stored.subs,
     disconnect_info |-> IF stored.disconnect_info.st = "some" THEN stored.disconnect_info.v
                         ELSE DisconnectInfo_new(stored.last_time),
     deliver_queue |-> Take(stored.offline_messages, listen_cfg.max_mqueue_len),
     out_inflight |-> stored.inflight_messages]
NoSession ==
    [id_key |-> "", client_id |-> "", subs |-> <<>>, disconnect_info |-> DisconnectInfo_new(0),
     deliver_queue |-> <<>>, out_inflight |-> <<>>]

\* RebuildChanType::Session(session, interval) and RebuildChanType::Done(done_tx)
RebuildSession(session, interval) ==
    [kind |-> "Session", session |-> session, session_expiry_interval |-> interval]
RebuildDone == [kind |-> "Done", session |-> NoSession, session_expiry_interval |-> 0]

\* The records rebuild_offline_sessions visits: the first of each client id.
ClientOrder == <<"a", "b">>

\* An expiry test that lets a session with no time left through.
is_expiry_strict(interval) == interval < 0

\* Whether a remaining interval means the session has expired.
is_expiry(interval) == interval <= 0

\* stored.subs.take() and stored.disconnect_info.take(): the arguments of Session::new
take_fields(infos, c) ==
    [infos EXCEPT ![c][1].subs = <<>>,
                  ![c][1].disconnect_info = OkNone(DisconnectInfo_new(0))]

\* offline_messages.drain(..) and inflight_messages.drain(..)
drain_messages(infos, c) ==
    [infos EXCEPT ![c][1].offline_messages = <<>>,
                  ![c][1].inflight_messages = <<>>]

\* The loop of rebuild_offline_sessions over the client ids cs, at time t.
RECURSIVE rebuild_loop(_, _, _, _, _, _)
rebuild_loop(cs, infos, db, chan, faults, t) ==
    IF cs = <<>> THEN [db |-> db, chan |-> chan, infos |-> infos]
    ELSE LET c == Head(cs)
             storeds == infos[c]
             rest == Tail(cs)
         IN  IF storeds = <<>> THEN rebuild_loop(rest, infos, db, chan, faults, t)
             ELSE LET stored == storeds[1]
                      cfgs == listen_cfg_get(stored.basic.lid)
                  IN  IF cfgs = {} THEN rebuild_loop(rest, infos, db, chan, faults, t)
                      ELSE LET listen_cfg == CHOOSE cfg \in cfgs : TRUE
                               interval == session_expiry_interval(
                                   listen_cfg, stored.disconnect_info, stored.last_time, t)
                           IN  IF is_expiry(interval)
                               THEN rebuild_loop(rest, infos,
                                        list_remove(map_remove(db, stored.id_key, faults),
                                                    stored.id_key, faults),
                                        chan, faults, t)
                               ELSE IF "Session_new" \in faults
                               THEN rebuild_loop(rest, take_fields(infos, c), db, chan, faults, t)
                               ELSE IF "send" \in faults
                               THEN rebuild_loop(rest, drain_messages(take_fields(infos, c), c),
                                                 db, chan, faults, t)
                               ELSE rebuild_loop(rest, drain_messages(take_fields(infos, c), c), db,
                                        Append(chan, RebuildSession(Session(stored, listen_cfg),
                                                                    interval)),
                                        faults, t)

\* rebuild_offline_sessions: the Session items, then the Done item unless the send fails.
rebuild_offline_sessions(infos, db, chan, faults, t) ==
    LET loop == rebuild_loop(ClientOrder, infos, db, chan, faults, t)
    IN  [db |-> loop.db,
         chan |-> IF "send" \in faults THEN loop.chan ELSE Append(loop.chan, RebuildDone),
         infos |-> loop.infos]

\* The shared session table: at most one session per client id.
NoSessions == [c \in ClientIds |-> NoSession]
\* session_entry.set(session, msg_tx): the entry of the session's client id takes it.
entry_set(table, session) == [table EXCEPT ![session.client_id] = session]
\* The sessions in the table.
LiveSessions(table) == {table[c] : c \in {c \in ClientIds : table[c] # NoSession}}

\* The plugin before init: pc is the position of the startup sequence, run its number,
\* done the state of the oneshot channel of the BeforeStartup handler.
Startup(pc, run, done) == [pc |-> pc, run |-> run, done |-> done]
\* What this run has done so far, kept for the properties.
BootLog(scanned, retained, before, enqueued, restarted, prev_scanned, prev_pc, prev_live) ==
    [scanned |-> scanned, retained |-> retained, before |-> before, enqueued |-> enqueued,
     restarted |-> restarted, prev_scanned |-> prev_scanned, prev_pc |-> prev_pc,
     prev_live |-> prev_live]

\* Plugin::init: the handlers are registered, then the stored records are loaded.
PluginInit ==
    /\ startup.pc = "created"
    /\ LET load == load_offline_session_infos(storage_db, failing)
       IN  /\ storage_db' = load.db
           /\ stored_session_infos' = load.infos
           /\ startup' = [startup EXCEPT !.pc = IF load.ok THEN "inited" ELSE "init_failed"]
           /\ boot_log' = [boot_log EXCEPT !.scanned = storage_db]
    /\ UNCHANGED <<rebuild_rx, exec_queue, shared, failing, offlineVars>>
    /\ UNCHANGED <<pluginVars, aclVars, authVars, grpcVars, applied, hookVars, lateVars>>

\* StorageHandler::hook(BeforeStartup), up to rebuild_done_rx.await
BeforeStartup ==
    /\ startup.pc = "inited"
    /\ LET rebuild == rebuild_offline_sessions(stored_session_infos, storage_db, rebuild_rx,
                                               failing, now)
       IN  /\ storage_db' = rebuild.db
           /\ stored_session_infos' = rebuild.infos
           /\ rebuild_rx' = rebuild.chan
           /\ startup' = [startup EXCEPT !.pc = "awaiting",
                                         !.done = IF "send" \in failing THEN "dropped"
                                                  ELSE "pending"]
           /\ boot_log' = [boot_log EXCEPT !.retained = stored_session_infos,
                                           !.before = storage_db,
                                           !.enqueued = SelectSeq(rebuild.chan,
                                                LAMBDA item : item.kind = "Session")]
    /\ UNCHANGED <<exec_queue, shared, failing, offlineVars>>
    /\ UNCHANGED <<pluginVars, aclVars, authVars, grpcVars, applied, hookVars, lateVars>>

\* The rebuild thread takes a Session item: offline_restart, then the spawn of the task
\* that sets the session's entry.
ExecSession ==
    /\ rebuild_rx # <<>>
    /\ Head(rebuild_rx).kind = "Session"
    /\ rebuild_rx' = Tail(rebuild_rx)
    /\ exec_queue' = IF "offline_restart" \in failing THEN exec_queue
                     ELSE Append(exec_queue, Head(rebuild_rx).session)
    /\ boot_log' = [boot_log EXCEPT !.restarted = @ \cup {Head(rebuild_rx).session.client_id}]
    /\ UNCHANGED <<storage_db, stored_session_infos, shared, startup, failing, offlineVars>>
    /\ UNCHANGED <<pluginVars, aclVars, authVars, grpcVars, applied, hookVars, lateVars>>

\* The executor runs the task it spawned first.
ExecTask ==
    /\ exec_queue # <<>>
    /\ exec_queue' = Tail(exec_queue)
    /\ shared' = IF "entry_set" \in failing THEN shared
                 ELSE entry_set(shared, Head(exec_queue))
    /\ UNCHANGED <<storage_db, stored_session_infos, rebuild_rx, startup, failing, boot_log,
                   offlineVars>>
    /\ UNCHANGED <<pluginVars, aclVars, authVars, grpcVars, applied, hookVars, lateVars>>

\* A Done arm that signals done_tx without waiting for the spawned tasks.
ExecDone_unflushed ==
    /\ rebuild_rx # <<>>
    /\ Head(rebuild_rx).kind = "Done"
    /\ rebuild_rx' = Tail(rebuild_rx)
    /\ startup' = [startup EXCEPT !.done = "sent"]
    /\ UNCHANGED <<storage_db, stored_session_infos, exec_queue, shared, failing, boot_log,
                   offlineVars>>
    /\ UNCHANGED <<pluginVars, aclVars, authVars, grpcVars, applied, hookVars, lateVars>>

\* The rebuild thread takes the Done item: exec.flush() returns when no task is left,
\* then done_tx.send(()).
ExecDone ==
    /\ rebuild_rx # <<>>
    /\ Head(rebuild_rx).kind = "Done"
    /\ exec_queue = <<>>
    /\ rebuild_rx' = Tail(rebuild_rx)
    /\ startup' = [startup EXCEPT !.done = "sent"]
    /\ UNCHANGED <<storage_db, stored_session_infos, exec_queue, shared, failing, boot_log,
                   offlineVars>>
    /\ UNCHANGED <<pluginVars, aclVars, authVars, grpcVars, applied, hookVars, lateVars>>

\* rebuild_done_rx.await resolves, with () or with Canceled, and the handler returns.
BeforeStartupReturn ==
    /\ startup.pc = "awaiting"
    /\ startup.done \in {"sent", "dropped"}
    /\ startup' = [startup EXCEPT !.pc = "returned"]
    /\ UNCHANGED <<storage_db, stored_session_infos, rebuild_rx, exec_queue, shared, failing,
                   boot_log, offlineVars>>
    /\ UNCHANGED <<pluginVars, aclVars, authVars, grpcVars, applied, hookVars, lateVars>>

\* The broker stops and starts again on the storage it left, in the same environment.
Restart ==
    /\ startup.pc \in {"returned", "init_failed"}
    /\ startup.run < MaxRuns
    /\ startup' = Startup("created", startup.run + 1, "none")
    /\ stored_session_infos' = NoInfos
    /\ rebuild_rx' = <<>>
    /\ exec_queue' = <<>>
    /\ shared' = NoSessions
    /\ boot_log' = [boot_log EXCEPT !.prev_scanned = boot_log.scanned,
                                    !.prev_pc = startup.pc,
                                    !.prev_live = LiveSessions(shared), !.enqueued = <<>>,
                                    !.restarted = {}]
    /\ UNCHANGED <<storage_db, failing, offlineVars>>
    /\ UNCHANGED <<pluginVars, aclVars, authVars, grpcVars, applied, hookVars, lateVars>>

NextRebuild == PluginInit \/ BeforeStartup \/ ExecSession \/ ExecTask \/ ExecDone
               \/ BeforeStartupReturn

NextStorage == NextRebuild \/ Restart

\* The offline message (client_id, from, publish) of the n-th publish.
OfflineMessageOf(client_id, n) == [client_id |-> client_id, from |-> "f", publish |-> n]

\* List::push_limit(val, limit, pop_front_if_limited = true): the list takes val, and gives
\* up its oldest element when it then holds more than limit.
push_limit(items, val, limit) ==
    IF Len(items) + 1 > limit THEN Append(Tail(items), val) ELSE Append(items, val)

\* The task a hook call spawned: the write it will make.
WriteTask(kind, id_key, item, limit) ==
    [kind |-> kind, id_key |-> id_key, item |-> item, limit |-> limit]
\* The write a spawned task made: its outcome and the items the list held before it.
Written(outcome, task, old) == [outcome |-> outcome, task |-> task, old |-> old]
NoWrite == Written("none", WriteTask("none", "", OfflineMessageOf("", 0), 0), <<>>)
\* The last step of the handler or of a task it spawned: the number of calls so far, the
\* parameter and accumulator of a call and what it returned, or the write of a task.
Hooked(n, param, acc, ret, write) ==
    [n |-> n, param |-> param, acc |-> acc, ret |-> ret, write |-> write]
NoHooked == Hooked(0, "none", "None", <<TRUE, "None">>, NoWrite)
Accs == {"None", "Some"}
\* The client id of the session whose records have the name id_key.
SessionClient(id_key) == IF id_key = "k1" THEN "a" ELSE "b"
\* The listener of the sessions that go offline.
SessionListenCfg == CHOOSE c \in ListenCfgs : TRUE

\* OfflineMessageHandler::hook(OfflineMessage(s, f, p), acc)
OfflineMessage(id_key, acc) ==
    /\ offline_call.n < MaxOffline
    /\ spawned' = spawned \cup
            {WriteTask("list", id_key,
                       OfflineMessageOf(SessionClient(id_key), offline_call.n + 1),
                       SessionListenCfg.max_mqueue_len)}
    /\ offline_call' = Hooked(offline_call.n + 1, "OfflineMessage", acc, <<TRUE, acc>>, NoWrite)
    /\ UNCHANGED <<storage_db, rebuildVars>>
    /\ UNCHANGED <<pluginVars, aclVars, authVars, grpcVars, applied, hookVars, lateVars>>

\* OfflineMessageHandler::hook(OfflineInflightMessages(s, inflight_messages), acc)
OfflineInflightMessages(id_key, acc) ==
    /\ offline_call.n < MaxOffline
    /\ spawned' = spawned \cup
            {WriteTask("map", id_key, OfflineMessageOf(SessionClient(id_key), offline_call.n + 1), 0)}
    /\ offline_call' = Hooked(offline_call.n + 1, "OfflineInflightMessages", acc, <<TRUE, acc>>, NoWrite)
    /\ UNCHANGED <<storage_db, rebuildVars>>
    /\ UNCHANGED <<pluginVars, aclVars, authVars, grpcVars, applied, hookVars, lateVars>>

\* OfflineMessageHandler::hook with any other parameter
OfflineOther(acc) ==
    /\ offline_call.n < MaxOffline
    /\ offline_call' = Hooked(offline_call.n + 1, "other", acc, <<TRUE, acc>>, NoWrite)
    /\ UNCHANGED <<storage_db, spawned, rebuildVars>>
    /\ UNCHANGED <<pluginVars, aclVars, authVars, grpcVars, applied, hookVars, lateVars>>

\* A task that appends to the list without a limit.
RunWriteTask_unbounded(task, ok) ==
    /\ task \in spawned
    /\ spawned' = spawned \ {task}
    /\ storage_db' =
          IF ~ok THEN storage_db
          ELSE IF task.kind = "list"
          THEN [storage_db EXCEPT !.lists[task.id_key] =
                    ListRecord(@.readable, Append(@.items, task.item))]
          ELSE [storage_db EXCEPT !.maps[task.id_key] =
                    [@ EXCEPT !.exists = TRUE, !.INFLIGHT_MESSAGES = OkSome(<<task.item>>)]]
    /\ offline_call' = Hooked(offline_call.n, "none", "None", <<TRUE, "None">>,
                              Written(IF ok THEN "ok" ELSE "err", task,
                                      storage_db.lists[task.id_key].items))
    /\ UNCHANGED rebuildVars
    /\ UNCHANGED <<pluginVars, aclVars, authVars, grpcVars, applied, hookVars, lateVars>>

\* A spawned task runs: storage_db.list(..) then push_limit, or storage_db.map(..) then
\* insert(INFLIGHT_MESSAGES, ..); ok says whether both calls returned Ok.
RunWriteTask(task, ok) ==
    /\ task \in spawned
    /\ spawned' = spawned \ {task}
    /\ storage_db' =
          IF ~ok THEN storage_db
          ELSE IF task.kind = "list"
          THEN [storage_db EXCEPT !.lists[task.id_key] =
                    ListRecord(@.readable, push_limit(@.items, task.item, task.limit))]
          ELSE [storage_db EXCEPT !.maps[task.id_key] =
                    [@ EXCEPT !.exists = TRUE, !.INFLIGHT_MESSAGES = OkSome(<<task.item>>)]]
    /\ offline_call' = Hooked(offline_call.n, "none", "None", <<TRUE, "None">>,
                              Written(IF ok THEN "ok" ELSE "err", task,
                                      storage_db.lists[task.id_key].items))
    /\ UNCHANGED rebuildVars
    /\ UNCHANGED <<pluginVars, aclVars, authVars, grpcVars, applied, hookVars, lateVars>>

NextOffline ==
    \/ \E id_key \in IdKeys, acc \in Accs : OfflineMessage(id_key, acc)
    \/ \E id_key \in IdKeys, acc \in Accs : OfflineInflightMessages(id_key, acc)
    \/ \E acc \in Accs : OfflineOther(acc)
    \/ \E task \in spawned, ok \in BOOLEAN : RunWriteTask(task, ok)

\* The persisted states a broker can find at startup: per name no record, a record without
\* a usable BASIC, or a record of a session with its times and the state of its other fields.
SomeSubs == <<"t/#">>
SomeInflight == <<OfflineMessageOf("a", 0)>>
StoredDisconnectInfos ==
    {OkNone(DisconnectInfo_new(0)),
     OkSome(DisconnectInfo(0, MqttDisconnect(FALSE, 0))),
     OkSome(DisconnectInfo(2, MqttDisconnect(FALSE, 0)))}
SessionRecord(basic, last_time, disconnect_info) ==
    MapRecord(OkSome(basic), OkSome(last_time), OkSome(SomeSubs), disconnect_info,
              OkSome(SomeInflight))
MapRecords ==
    {NoMap,
     MapRecord(OkNone(NoBasic), OkSome(3), OkSome(SomeSubs), OkNone(DisconnectInfo_new(0)),
               OkNone(<<>>)),
     MapRecord(ReadErr(NoBasic), OkNone(0), OkNone(<<>>), OkNone(DisconnectInfo_new(0)),
               OkSome(SomeInflight))}
    \cup {SessionRecord(Basic("a", 1), t, d) : t \in {1, 3}, d \in StoredDisconnectInfos}
    \cup {SessionRecord(Basic("b", 1), t, OkNone(DisconnectInfo_new(0))) : t \in {1, 3}}
    \cup {SessionRecord(Basic("a", 2), 3, OkNone(DisconnectInfo_new(0))),
          SessionRecord(Basic("a", 1), 3,
                        OkSome(DisconnectInfo(2, MqttDisconnect(TRUE, 0))))}
    \cup {MapRecord(OkSome(Basic("a", 1)), OkNone(0), ReadErr(<<>>),
                    OkSome(DisconnectInfo(3, MqttDisconnect(FALSE, 0))), OkNone(<<>>)),
          MapRecord(OkSome(Basic("a", 1)), ReadErr(0), OkNone(<<>>),
                    ReadErr(DisconnectInfo_new(0)), ReadErr(<<>>))}
ListRecords ==
    {NoList, ListRecord(TRUE, <<OfflineMessageOf("a", 1)>>), ListRecord(FALSE, <<>>)}
StorageStates == [maps : [IdKeys -> MapRecords], lists : [IdKeys -> ListRecords]]
EmptyStorage == [maps |-> [k \in IdKeys |-> NoMap], lists |-> [k \in IdKeys |-> NoList]]

InitRebuild ==
    /\ stored_session_infos = NoInfos
    /\ rebuild_rx = <<>>
    /\ exec_queue = <<>>
    /\ shared = NoSessions
    /\ startup = Startup("created", 1, "none")
    /\ boot_log = BootLog(storage_db, NoInfos, storage_db, <<>>, {}, storage_db, "none", {})

InitOffline == spawned = {} /\ offline_call = NoHooked

\* The plugin is loaded on an empty storage and is not started.
InitStorageIdle ==
    /\ storage_db = EmptyStorage
    /\ failing = {}
    /\ InitRebuild
    /\ InitOffline

(***************************************************************************)
(* Concurrent Manager calls on one entry: rmqtt/src/plugin.rs              *)
(***************************************************************************)
CallerIds == 1..MaxCallers
SlotName == "p1"
\* One Manager::start or Manager::stop call: where it stands and what it returned.
Caller(op, pc, ret) == [op |-> op, pc |-> pc, ret |-> ret]
NotCalled == Caller("none", "idle", "none")
\* The callers that hold the RefMut of the entry: from get_mut to the return.
Holders == {c \in CallerIds : callers[c].pc \in {"held", "in_init", "after_init", "in_start",
                                                 "in_stop"}}
\* The callers inside a method of the plugin.
InPlugin == {c \in CallerIds : callers[c].pc \in {"in_init", "in_start", "in_stop"}}
\* What the plugin calls did so far: init() calls that returned Ok, start() invocations,
\* transitions to active, the value the last completed start() or stop() gave the active
\* flag, and whether init() or start() was entered while another call was inside the plugin.
SlotLog(inits_ok, starts, activations, last_set, overlapped) ==
    [inits_ok |-> inits_ok, starts |-> starts, activations |-> activations,
     last_set |-> last_set, overlapped |-> overlapped]

\* get_mut that does not wait for the holder of the entry.
SlotAcquire_unguarded(c, op) ==
    /\ callers[c].pc = "idle"
    /\ LET gm == get_mut(plugins[SlotName])
       IN  callers' = [callers EXCEPT ![c] = IF gm.ok /\ gm.some THEN Caller(op, "held", "none")
                                            ELSE Caller(op, "done", "err")]
    /\ UNCHANGED <<plugins, slot_log>>
    /\ UNCHANGED <<cfgSource, lastOp, aclVars, authVars, grpcVars, applied, hookVars,
                   storageVars, raftVars>>

\* self.get_mut(name)?: the call takes the entry's RefMut once no other call holds it, or
\* returns Err for an immutable entry.
SlotAcquire(c, op) ==
    /\ callers[c].pc = "idle"
    /\ Holders = {}
    /\ LET gm == get_mut(plugins[SlotName])
       IN  callers' = [callers EXCEPT ![c] = IF gm.ok /\ gm.some THEN Caller(op, "held", "none")
                                            ELSE Caller(op, "done", "err")]
    /\ UNCHANGED <<plugins, slot_log>>
    /\ UNCHANGED <<cfgSource, lastOp, aclVars, authVars, grpcVars, applied, hookVars,
                   storageVars, raftVars>>

\* Manager::start: if !entry.inited, plugin_mut() and the call of init()
SlotBeginInit(c, newR) ==
    /\ callers[c].op = "start" /\ callers[c].pc = "held"
    /\ IF plugins[SlotName].inited
       THEN /\ callers' = [callers EXCEPT ![c].pc = "after_init"]
            /\ UNCHANGED <<plugins, slot_log>>
       ELSE LET pm == plugin_mut(plugins[SlotName], cfgSource[SlotName], newR)
            IN  IF ~pm.ok
                THEN /\ plugins' = [plugins EXCEPT ![SlotName] = pm.e]
                     /\ callers' = [callers EXCEPT ![c] = Caller("start", "done", "err")]
                     /\ UNCHANGED slot_log
                ELSE /\ plugins' = [plugins EXCEPT ![SlotName] =
                                        [pm.e EXCEPT !.initCalls = @ + 1]]
                     /\ callers' = [callers EXCEPT ![c].pc = "in_init"]
                     /\ slot_log' = [slot_log EXCEPT !.overlapped = @ \/ InPlugin # {}]
    /\ UNCHANGED <<cfgSource, lastOp, aclVars, authVars, grpcVars, applied, hookVars,
                   storageVars, raftVars>>

\* init() returns: Ok sets entry.inited, Err returns from Manager::start
SlotEndInit(c, initR) ==
    /\ callers[c].pc = "in_init"
    /\ IF initR = "ok"
       THEN /\ plugins' = [plugins EXCEPT ![SlotName].inited = TRUE]
            /\ callers' = [callers EXCEPT ![c].pc = "after_init"]
            /\ slot_log' = [slot_log EXCEPT !.inits_ok = @ + 1]
       ELSE /\ callers' = [callers EXCEPT ![c] = Caller("start", "done", "err")]
            /\ UNCHANGED <<plugins, slot_log>>
    /\ UNCHANGED <<cfgSource, lastOp, aclVars, authVars, grpcVars, applied, hookVars,
                   storageVars, raftVars>>

\* Manager::start: if !entry.active, plugin_mut() and the call of start()
SlotBeginStart(c, newR) ==
    /\ callers[c].pc = "after_init"
    /\ IF plugins[SlotName].active
       THEN /\ callers' = [callers EXCEPT ![c] = Caller("start", "done", "ok")]
            /\ UNCHANGED <<plugins, slot_log>>
       ELSE LET pm == plugin_mut(plugins[SlotName], cfgSource[SlotName], newR)
            IN  /\ plugins' = [plugins EXCEPT ![SlotName] = pm.e]
                /\ IF ~pm.ok
                   THEN /\ callers' = [callers EXCEPT ![c] = Caller("start", "done", "err")]
                        /\ UNCHANGED slot_log
                   ELSE /\ callers' = [callers EXCEPT ![c].pc = "in_start"]
                        /\ slot_log' = [slot_log EXCEPT !.starts = @ + 1,
                                            !.overlapped = @ \/ InPlugin # {}]
    /\ UNCHANGED <<cfgSource, lastOp, aclVars, authVars, grpcVars, applied, hookVars,
                   storageVars, raftVars>>

\* start() returns: Ok sets entry.active
SlotEndStart(c, startR) ==
    /\ callers[c].pc = "in_start"
    /\ IF startR = "ok"
       THEN /\ plugins' = [plugins EXCEPT ![SlotName].active = TRUE]
            /\ callers' = [callers EXCEPT ![c] = Caller("start", "done", "ok")]
            /\ slot_log' = [slot_log EXCEPT !.activations = @ + 1, !.last_set = "active"]
       ELSE /\ callers' = [callers EXCEPT ![c] = Caller("start", "done", "err")]
            /\ UNCHANGED <<plugins, slot_log>>
    /\ UNCHANGED <<cfgSource, lastOp, aclVars, authVars, grpcVars, applied, hookVars,
                   storageVars, raftVars>>

\* Manager::stop: if entry.active, plugin_mut() and the call of stop()
SlotBeginStop(c, newR) ==
    /\ callers[c].op = "stop" /\ callers[c].pc = "held"
    /\ IF ~plugins[SlotName].active
       THEN /\ callers' = [callers EXCEPT ![c] = Caller("stop", "done", "err")]
            /\ UNCHANGED plugins
       ELSE LET pm == plugin_mut(plugins[SlotName], cfgSource[SlotName], newR)
            IN  /\ plugins' = [plugins EXCEPT ![SlotName] = pm.e]
                /\ callers' = [callers EXCEPT ![c] =
                        IF pm.ok THEN Caller("stop", "in_stop", "none")
                        ELSE Caller("stop", "done", "err")]
    /\ UNCHANGED slot_log
    /\ UNCHANGED <<cfgSource, lastOp, aclVars, authVars, grpcVars, applied, hookVars,
                   storageVars, raftVars>>

\* stop() returns: Ok(stopped) sets entry.active = !stopped
SlotEndStop(c, stopR) ==
    /\ callers[c].pc = "in_stop"
    /\ IF stopR = "err"
       THEN /\ callers' = [callers EXCEPT ![c] = Caller("stop", "done", "err")]
            /\ UNCHANGED <<plugins, slot_log>>
       ELSE /\ plugins' = [plugins EXCEPT ![SlotName].active = ~(stopR = "true")]
            /\ callers' = [callers EXCEPT ![c] = Caller("stop", "done", stopR)]
            /\ slot_log' = [slot_log EXCEPT !.last_set = IF stopR = "true" THEN "inactive"
                                                        ELSE "active"]
    /\ UNCHANGED <<cfgSource, lastOp, aclVars, authVars, grpcVars, applied, hookVars,
                   storageVars, raftVars>>

NextSlot ==
    \/ \E c \in CallerIds, op \in {"start", "stop"} : SlotAcquire(c, op)
    \/ \E c \in CallerIds, newR \in NewOutcomes(plugins[SlotName].kind, cfgSource[SlotName]) :
          SlotBeginInit(c, newR)
    \/ \E c \in CallerIds, initR \in InitOutcomes(plugins[SlotName].kind) : SlotEndInit(c, initR)
    \/ \E c \in CallerIds, newR \in NewOutcomes(plugins[SlotName].kind, cfgSource[SlotName]) :
          SlotBeginStart(c, newR)
    \/ \E c \in CallerIds, startR \in StartOutcomes(plugins[SlotName].kind) :
          SlotEndStart(c, startR)
    \/ \E c \in CallerIds, newR \in NewOutcomes(plugins[SlotName].kind, cfgSource[SlotName]) :
          SlotBeginStop(c, newR)
    \/ \E c \in CallerIds, stopR \in StopOutcomes(plugins[SlotName].kind) : SlotEndStop(c, stopR)

InitSlot ==
    /\ callers = [c \in CallerIds |-> NotCalled]
    /\ slot_log = SlotLog(0, 0, 0, "none", FALSE)

(***************************************************************************)
(* Raft proposals of the cluster hook handler:                             *)
(* rmqtt-plugins/rmqtt-cluster-raft/src/handler.rs                         *)
(***************************************************************************)
RaftIds == {"c1", "c2"}
\* Tries of send_proposal before retry(BACKOFF_STRATEGY) gives up.
MaxAttempts == 2

\* Message::Disconnected { id } and Message::SessionTerminated { id }
Proposal(kind, id) == [kind |-> kind, id |-> id]
\* A task spawned with tokio::spawn: the proposal it sends, the tries made, and
\* whether it is still running, has sent, or gave up.
RaftTask(msg, attempts, st) == [msg |-> msg, attempts |-> attempts, st |-> st]
\* A session as the hooks see it: connected, disconnected (ClientDisconnected
\* was dispatched, with a kick reason or another), terminated.
RaftSession(pc, kicked) == [pc |-> pc, kicked |-> kicked]

\* HookHandler::hook, Parameter::ClientDisconnected(s, r): kicked is
\* r.is_kicked(false), encoded is whether Message::encode returned Ok.
HookClientDisconnected(id, kicked, encoded) ==
    /\ raft_sessions[id].pc = "connected"
    /\ raft_sessions' = [raft_sessions EXCEPT ![id] = RaftSession("disconnected", kicked)]
    /\ raft_tasks' = IF ~kicked /\ encoded
                     THEN Append(raft_tasks, RaftTask(Proposal("Disconnected", id), 0, "running"))
                     ELSE raft_tasks
    /\ UNCHANGED raft_mailbox
    /\ UNCHANGED <<pluginVars, aclVars, authVars, grpcVars, applied, hookVars, storageVars,
                   slotVars>>

\* HookHandler::hook, Parameter::SessionTerminated(s, _r), dispatched after the
\* session's ClientDisconnected.
HookSessionTerminated(id, encoded) ==
    /\ raft_sessions[id].pc = "disconnected"
    /\ raft_sessions' = [raft_sessions EXCEPT ![id].pc = "terminated"]
    /\ raft_tasks' = IF encoded
                     THEN Append(raft_tasks,
                                 RaftTask(Proposal("SessionTerminated", id), 0, "running"))
                     ELSE raft_tasks
    /\ UNCHANGED raft_mailbox
    /\ UNCHANGED <<pluginVars, aclVars, authVars, grpcVars, applied, hookVars, storageVars,
                   slotVars>>

\* One try of a spawned task: mailbox.send_proposal(msg) run on the task
\* queue. Ok ends the task with the proposal in the mailbox; Err is retried
\* after a backoff until retry gives up and the error is logged.
SendProposal(i, ok) ==
    /\ i \in DOMAIN raft_tasks
    /\ raft_tasks[i].st = "running"
    /\ raft_tasks[i].attempts < MaxAttempts
    /\ LET n == raft_tasks[i].attempts + 1
       IN  IF ok
           THEN /\ raft_mailbox' = Append(raft_mailbox, raft_tasks[i].msg)
                /\ raft_tasks' = [raft_tasks EXCEPT ![i] = RaftTask(@.msg, n, "sent")]
           ELSE /\ raft_mailbox' = raft_mailbox
                /\ raft_tasks' = [raft_tasks EXCEPT ![i] =
                                     RaftTask(@.msg, n, IF n < MaxAttempts THEN "running"
                                                        ELSE "gave_up")]
    /\ UNCHANGED raft_sessions
    /\ UNCHANGED <<pluginVars, aclVars, authVars, grpcVars, applied, hookVars, storageVars,
                   slotVars>>

NextRaft ==
    \/ \E id \in RaftIds, kicked \in BOOLEAN, encoded \in BOOLEAN :
          HookClientDisconnected(id, kicked, encoded)
    \/ \E id \in RaftIds, encoded \in BOOLEAN : HookSessionTerminated(id, encoded)
    \/ \E i \in 1..(2 * Cardinality(RaftIds)), ok \in BOOLEAN : SendProposal(i, ok)

InitRaft ==
    /\ raft_sessions = [id \in RaftIds |-> RaftSession("connected", FALSE)]
    /\ raft_tasks = <<>>
    /\ raft_mailbox = <<>>

InitLate == InitSlot /\ InitRaft

InitApplied == applied = NoApplied

InitExt == InitApplied /\ InitHooks /\ InitStorageIdle /\ InitLate

\* One hook call with any arguments, at any time, on any cache content.
InitAuth ==
    /\ InitPlugin
    /\ authCall \in {Called(in) : in \in HookCalls}
    /\ now \in 1..MaxNow
    /\ caches \in (IF authCall.in.op = "HttpMessagePublishCheckAcl"
                   THEN CacheSamples ELSE {EmptyMap})
    /\ online = Sessions
    /\ checks = {}
    /\ issued = 0
    /\ lastCheck = NoCheck
    /\ lastSet = [id \in Sessions |->
                    [t \in Topics |-> cache_get(caches, id, t)]]
    /\ InitGrpc
    /\ InitExt

InitCore == InitPlugin /\ InitAcl /\ authCall = NoCall /\ InitGrpc

Init == InitCore /\ InitExt

\* One envelope or reply to take through its codec.
InitCodec ==
    /\ InitCore
    /\ (applied \in EnvelopeInputs \/ applied \in EncodedReplyInputs)
    /\ InitHooks
    /\ InitStorageIdle
    /\ InitLate

Next == NextPlugin \/ NextAcl \/ NextAuth \/ NextGrpc \/ NextCodec \/ NextHooks \/ NextClusterHook
        \/ NextReplaces \/ NextStorage \/ NextOffline \/ NextSlot \/ NextRaft

Spec == Init /\ [][Next]_vars

SpecPlugin == Init /\ [][NextPlugin]_vars

SpecAcl == Init /\ [][NextAcl]_vars

SpecAuth == InitAuth /\ [][NextAuth]_vars

SpecGrpcClient == Init /\ [][NextGrpcClient]_vars

SpecBroadcast == Init /\ [][NextBroadcast]_vars

\* The runtime polls the task that awaits select_ok whenever a sender has woken
\* it, and the timer of tokio::time::timeout fires for a sender that is still
\* pending.
SpecBroadcastLive ==
    /\ Init
    /\ [][NextBroadcast]_vars
    /\ WF_vars(PollSelectOk)
    /\ WF_vars(\E i \in PeerIndices : PeerOutcome(i, WireElapsed))

SpecGrpcServer == Init /\ [][NextGrpcServer]_vars

SpecCodec == InitCodec /\ [][NextCodec]_vars

SpecHooks == Init /\ [][NextHooks]_vars

\* One call of the cluster handler, with any parameter, accumulator and outcomes.
InitClusterHook ==
    InitCore /\ applied \in ClusterHookInputs /\ InitHooks /\ InitStorageIdle /\ InitLate

SpecClusterHook == InitClusterHook /\ [][NextClusterHook]_vars

SpecRaft == Init /\ [][NextRaft]_vars

\* One configured value to fill in, with any connect and request data.
InitReplaces ==
    /\ InitCore
    /\ \E v \in ParamValues, in \in ReplacesInputs :
          applied = Applied("replaces", [v |-> v, in |-> in], <<>>, <<>>, "input")
    /\ InitHooks
    /\ InitStorageIdle
    /\ InitLate

SpecReplaces == InitReplaces /\ [][NextReplaces]_vars

\* The broker starts at MaxNow on any persisted state, in any environment.
InitStartup ==
    /\ InitPlugin
    /\ now = MaxNow
    /\ caches = EmptyMap
    /\ online = Sessions
    /\ checks = {}
    /\ issued = 0
    /\ lastCheck = NoCheck
    /\ lastSet = [id \in Sessions |-> [t \in Topics |-> None]]
    /\ authCall = NoCall
    /\ InitGrpc
    /\ InitApplied
    /\ InitHooks
    /\ storage_db \in StorageStates
    /\ failing \in Faults
    /\ InitRebuild
    /\ InitOffline
    /\ InitLate

SpecStorage == InitStartup /\ [][NextStorage]_vars

\* The rebuild thread and the task of the BeforeStartup handler are scheduled
\* whenever they can take a step.
SpecRebuildLive ==
    /\ InitStartup
    /\ [][NextRebuild]_vars
    /\ WF_vars(ExecSession) /\ WF_vars(ExecTask) /\ WF_vars(ExecDone)
    /\ WF_vars(BeforeStartupReturn)

SpecOffline == Init /\ [][NextOffline]_vars

\* Calls arrive for one registered mutable or immutable entry of any kind, started at
\* registration or not.
InitSlotEntry ==
    /\ \E kind \in Kinds, default_startup \in BOOLEAN, immutable \in BOOLEAN :
          plugins = [n \in Names |-> NewEntry(kind, default_startup, immutable,
                                             IF default_startup THEN "cfgA" ELSE NoCfg)]
    /\ cfgSource = [n \in Names |-> "cfgA"]
    /\ lastOp = NoOp
    /\ InitAcl
    /\ authCall = NoCall
    /\ InitGrpc
    /\ InitExt

SpecSlot == InitSlotEntry /\ [][NextSlot]_vars

(***************************************************************************)
(* Publish ACL cache properties                                            *)
(***************************************************************************)
\* A MessagePublishCheckAcl handler returned in the last step.
IsPublish == lastCheck.op = "publish"
\* It had found an entry it could not use: the entry's expiry had been reached.
FoundStale == IsPublish /\ ~lastCheck.hit /\ lastCheck.found # None
\* The entry a cacheable reply writes when the handler returns at lastCheck.t.
FreshEntry ==
    [perm |-> lastCheck.perm,
     expire |-> IF lastCheck.cacheable[1] < 0 THEN lastCheck.cacheable[1]
                ELSE lastCheck.t + lastCheck.cacheable[1]]

\* C7: the handler uses a cached entry as the verdict only if the entry's
\* expiry is negative or now is strictly before it; no HTTP request is made then
\* and an entry whose expiry is positive and before now is never served.
C7_CacheServedOnlyIfFresh ==
    (IsPublish /\ lastCheck.hit) =>
        /\ lastCheck.found # None
        /\ lastCheck.found.expire < 0 \/ lastCheck.t < lastCheck.found.expire
        /\ ~(lastCheck.found.expire > 0 /\ lastCheck.found.expire < lastCheck.t)
        /\ lastCheck.perm = lastCheck.found.perm
        /\ lastCheck.http = "none"

C7_Witness ==
    /\ IsPublish /\ lastCheck.hit
    /\ lastCheck.found.expire > 0
    /\ lastCheck.t > 1
    /\ lastCheck.ret.acc = "PublishAclResult::Allow"

C9_NoEntryAfterDisconnect ==
    \A id \in Sessions \ online : \A topic \in Topics :
        cache_get(caches, id, topic) = None

LastSetOfCheck == lastSet[lastCheck.id][lastCheck.topic]

\* A handler that returned the cached verdict left the request count, the
\* suspended requests and the cache as they were.
C11_HitIssuesNoRequest ==
    (lastCheck'.op = "publish" /\ lastCheck'.hit) =>
        issued' = issued /\ checks' = checks /\ caches' = caches

\* A check is answered over HTTP only when it found no entry, or one whose
\* expiry had been reached; a check answered from the cache returns the verdict
\* of the latest cache_set for its key, which is the verdict the check that
\* wrote it returned.
C11_ServedFromLatestSet ==
    /\ \A chk \in checks :
          chk.found = None \/ (chk.found.expire >= 0 /\ chk.found.expire <= now)
    /\ FoundStale =>
          lastCheck.found.expire >= 0 /\ lastCheck.found.expire <= lastCheck.t
    /\ (IsPublish /\ lastCheck.hit) =>
          /\ lastCheck.http = "none"
          /\ lastCheck.found = LastSetOfCheck
          /\ lastCheck.perm = LastSetOfCheck.perm
          /\ lastCheck.ret = PublishReturn(LastSetOfCheck.perm)
          /\ lastCheck.after = lastCheck.before
    /\ (IsPublish /\ lastCheck.http # "none" /\ lastCheck.cacheable # NoTtl) =>
          /\ LastSetOfCheck = FreshEntry
          /\ lastCheck.ret = PublishReturn(LastSetOfCheck.perm)

\* C11: a MessagePublishCheckAcl that finds an entry whose expiry is negative
\* or after now issues no HTTP request and returns the cached verdict; so of two
\* publishes of a session to a topic, the second within the X-Cache TTL of the
\* first's reply, only the first causes an HTTP ACL request and both return the
\* same verdict.
C11_CacheHitSkipsHttp ==
    []C11_ServedFromLatestSet /\ [][C11_HitIssuesNoRequest]_vars

C11_Witness ==
    /\ IsPublish /\ lastCheck.hit
    /\ issued = 1 /\ checks = {}
    /\ lastCheck.found.expire > lastCheck.t
    /\ lastCheck.ret.acc = "PublishAclResult::Rejected"

(***************************************************************************)
(* Auth backend hook properties                                            *)
(***************************************************************************)
\* The hook op returned in this state.
IsReturned(op) == authCall.phase = "returned" /\ authCall.in.op = op
\* The auth-http ClientAuthenticate handler returned after asking its backend.
AuthenticateDecided ==
    /\ IsReturned("HttpClientAuthenticate")
    /\ authCall.out.verdict # None
\* What auth() gave the handler that returned.
AuthOfCall ==
    auth(authCall.in.has_auth_req, authCall.in.outcome, authCall.in.deny_if_error)

\* C12 as stated: for ClientAuthenticate, a verdict Allow(superuser) commits
\* AuthResult::Allow(superuser, auth_info) with proceed=false, Deny commits
\* BadUsernameOrPassword with proceed=false, Ignore returns proceed=true.
C12_AllowAlwaysCommitsAllow ==
    AuthenticateDecided =>
        CASE authCall.out.verdict.tag = "Allow" ->
                authCall.out.ret = Return(FALSE,
                    AuthResultAllow(authCall.out.verdict.superuser, AuthOfCall.auth_info))
          [] authCall.out.verdict.tag = "Deny" ->
                authCall.out.ret = Return(FALSE, BadUsernameOrPassword)
          [] OTHER -> authCall.out.ret.proceed

\* C12 amended: a verdict Allow(superuser) commits AuthResult::Allow(superuser,
\* auth_info) with proceed=false unless the AuthInfo built from the response is
\* already expired, and then it commits NotAuthorized with proceed=false; Deny
\* commits BadUsernameOrPassword with proceed=false; Ignore returns proceed=true
\* with no result.
C12_AllowCommitsAllowUnlessExpired ==
    AuthenticateDecided =>
        CASE authCall.out.verdict.tag = "Allow" ->
                IF AuthOfCall.auth_info # None /\ is_expired(AuthOfCall.auth_info, authCall.t)
                THEN authCall.out.ret = Return(FALSE, NotAuthorized)
                ELSE authCall.out.ret = Return(FALSE,
                        AuthResultAllow(authCall.out.verdict.superuser, AuthOfCall.auth_info))
          [] authCall.out.verdict.tag = "Deny" ->
                authCall.out.ret = Return(FALSE, BadUsernameOrPassword)
          [] OTHER -> authCall.out.ret = Return(TRUE, None)

C12_Witness ==
    /\ AuthenticateDecided
    /\ authCall.out.verdict = Allow(TRUE)
    /\ AuthOfCall.auth_info # None
    /\ ~is_expired(AuthOfCall.auth_info, authCall.t)
    /\ AuthOfCall.auth_info.expire_at # <<>>
    /\ authCall.out.ret.acc.tag = "AuthResult::Allow"
    /\ authCall.out.ret.acc.superuser

\* The handler that returned sent an HTTP request: it is an auth-http
\* ClientAuthenticate, ClientSubscribeCheckAcl or MessagePublishCheckAcl call
\* that got past the accumulator, the session's rules and the cache, with the
\* request configured.
RequestMade ==
    /\ authCall.phase = "returned"
    /\ authCall.out.verdict # None
    /\ CASE authCall.in.op = "HttpClientAuthenticate" -> authCall.in.has_auth_req
         [] authCall.in.op = "HttpClientSubscribeCheckAcl" -> authCall.in.has_acl_req
         [] authCall.in.op = "HttpMessagePublishCheckAcl" ->
                /\ authCall.in.has_acl_req
                /\ CachedVerdict(authCall.cache_before, authCall.t) = None
         [] OTHER -> FALSE

\* C13: when the HTTP auth or ACL request fails with a transport error or a
\* timeout, the backend's verdict is Deny if deny_if_error is set and Ignore
\* otherwise; ClientAuthenticate then returns (false, BadUsernameOrPassword) or
\* yields; and the ACL cache is left as it was.
C13_RequestErrorFollowsDenyIfError ==
    (RequestMade /\ authCall.in.outcome = TransportError) =>
        /\ authCall.out.verdict = IF authCall.in.deny_if_error THEN Deny ELSE Ignore
        /\ authCall.in.op = "HttpClientAuthenticate" =>
              authCall.out.ret = IF authCall.in.deny_if_error
                                 THEN Return(FALSE, BadUsernameOrPassword)
                                 ELSE Return(TRUE, None)
        /\ authCall.in.op # "HttpClientAuthenticate" =>
              authCall.out.ret.proceed = ~authCall.in.deny_if_error
        /\ authCall.cache_after = authCall.cache_before
        /\ \A id \in Sessions, topic \in Topics :
              cache_get(caches, id, topic) = lastSet[id][topic]

C13_Witness ==
    /\ RequestMade
    /\ authCall.in.op = "HttpMessagePublishCheckAcl"
    /\ authCall.in.outcome = TransportError
    /\ authCall.in.deny_if_error
    /\ authCall.cache_before # None
    /\ authCall.out.ret = Return(FALSE, "PublishAclResult::Rejected")
    /\ authCall.cache_after = authCall.cache_before

\* C14: a response with a non-success HTTP status yields the verdict Ignore
\* with superuser false and no cache timeout, whatever its body, its X-Superuser
\* and X-Cache headers and deny_if_error are: the handler yields to the next one
\* and writes nothing to the ACL cache.
C14_NonSuccessStatusIsIgnore ==
    (/\ RequestMade
     /\ authCall.in.outcome.kind = "response"
     /\ ~authCall.in.outcome.status_success)
        => /\ request(authCall.in.outcome) = ResponseResult_new(Ignore, FALSE, NoTtl)
           /\ authCall.out.verdict = Ignore
           /\ authCall.out.ret.proceed
           /\ authCall.in.op = "HttpClientAuthenticate" =>
                 authCall.out.ret = Return(TRUE, None)
           /\ authCall.cache_after = authCall.cache_before

C14_Witness ==
    /\ RequestMade
    /\ authCall.in.op = "HttpMessagePublishCheckAcl"
    /\ authCall.in.outcome.kind = "response"
    /\ ~authCall.in.outcome.status_success
    /\ authCall.in.outcome.x_cache = TextHeader(<<"1">>)
    /\ authCall.in.outcome.body = TextBody("deny")
    /\ authCall.in.deny_if_error
    /\ authCall.out.ret.proceed
    /\ authCall.cache_before = None /\ authCall.cache_after = None

\* A subscribe or publish ACL handler of auth-http or auth-jwt returned, for a
\* session whose AuthInfo had expired when it was called.
AclCheckOfExpiredSession ==
    /\ authCall.phase = "returned"
    /\ authCall.in.op \in {"HttpClientSubscribeCheckAcl", "HttpMessagePublishCheckAcl",
                             "JwtClientSubscribeCheckAcl", "JwtMessagePublishCheckAcl"}
    /\ authCall.in.auth_info # None
    /\ is_expired(authCall.in.auth_info, authCall.t)

KeepaliveReturned == IsReturned("HttpClientKeepalive") \/ IsReturned("JwtClientKeepalive")

CallsInProgress(n) ==
    Cardinality({i \in TaskIds : InProgress(tasks[i]) /\ tasks[i].node = n})
        + Cardinality({i \in Indices(senders) : InProgress(senders[i]) /\ senders[i].node = n})

\* C17: a client's active_tasks counter always equals the number of send_message and
\* notify calls in progress on it, whatever way the earlier calls ended (reply, encode or
\* decode error, transport error, timeout, dropped future); so it is never negative and
\* is zero when no call is outstanding.
C17_ActiveTasksCountsCalls ==
    \A n \in NodeIds : active_tasks[n] = CallsInProgress(n) /\ active_tasks[n] >= 0

\* One send_message on a client was dropped and a notify on the same client is the only
\* call still waiting: the counter is 1.
C17_Witness ==
    \E n \in NodeIds, i, j, k \in TaskIds :
        /\ tasks[i] = Future("dropped", n, "send_message", FALSE, NoWire, Err("none"))
        /\ tasks[j] = Future("pending", n, "notify", TRUE, NoWire, Err("none"))
        /\ tasks[k].st = "pending" => k = j
        /\ active_tasks[n] = 1

\* Every peer of the broadcast was handed the broadcaster's (type, message), once, and no
\* other node anything; a sender whose request did not serialise handed over nothing.
SameRequestToEveryPeer ==
    \A n \in NodeIds :
        LET at == {i \in Indices(senders) : broadcast.grpc_clients[i] = n}
        IN  IF at # {} /\ \E i \in at : senders[i].ret # Err("encode")
            THEN mailed[n] = <<Message_encode(broadcast.msg, broadcast.msg_type)>>
            ELSE mailed[n] = <<>>

JoinAllReturned == broadcast.call = "join_all" /\ returned.done

\* join_all's Vec has one (node_id, result) per peer, each peer's own result, failed or not.
OneEntryPerPeer ==
    /\ Len(returned.entries) = Len(broadcast.grpc_clients)
    /\ \A i \in Indices(senders) :
          \E k \in Indices(returned.entries) :
              returned.entries[k] = <<broadcast.grpc_clients[i], senders[i].ret>>

\* C18 as stated: join_all issues the same (type, message) to every peer and returns one
\* (node_id, result) entry per peer, failures included, the entries in the order in which
\* the peers' calls completed.
C18_EntriesInCompletionOrder ==
    /\ broadcast.call = "join_all" => SameRequestToEveryPeer
    /\ JoinAllReturned =>
          /\ OneEntryPerPeer
          /\ \A k \in Indices(returned.entries) :
                returned.entries[k][1] = broadcast.grpc_clients[completed[k]]

\* C18 amended: the entries are in the order grpc_clients iterates its peers, whatever
\* the order in which the calls completed.
C18_EntriesInClientsOrder ==
    /\ broadcast.call = "join_all" => SameRequestToEveryPeer
    /\ JoinAllReturned =>
          /\ OneEntryPerPeer
          /\ \A k \in Indices(returned.entries) :
                returned.entries[k] = <<broadcast.grpc_clients[k], senders[k].ret>>

\* join_all returned for three peers of which the last one in grpc_clients completed
\* first, with a failure, and another one succeeded.
C18_Witness ==
    /\ JoinAllReturned
    /\ Len(broadcast.grpc_clients) = 3
    /\ completed[1] = 3
    /\ ~returned.entries[3][2].ok
    /\ \E k \in Indices(returned.entries) : returned.entries[k][2].ok

SelectOkReturned == broadcast.call = "select_ok" /\ returned.done

\* What the senders that returned gave select_ok, in the order in which they returned.
SendResults == [k \in Indices(completed) |-> send(senders[completed[k]].ret, broadcast.accept)]

\* As soon as a sender returned a reply check_fn accepts, select_ok has returned, with
\* the first such value; failures and rejections before it do not end the race, and
\* nothing waits for the senders still outstanding, which are dropped.
C19_FirstSuccessWins ==
    broadcast.call = "select_ok" =>
        LET oks == {k \in Indices(completed) : SendResults[k].ok}
        IN  /\ oks # {} =>
                  /\ returned.done
                  /\ returned.value = SendResults[CHOOSE k \in oks : \A j \in oks : k <= j]
            /\ (returned.done /\ oks = {}) =>
                  /\ \A i \in Indices(senders) : senders[i].st = "done"
                  /\ ~returned.value.ok
            /\ returned.done => \A i \in Indices(senders) : ~InProgress(senders[i])

\* Once select_ok returned, no sender is polled and the result stays, whoever replies.
C19_NothingAfterReturn ==
    SelectOkReturned =>
        /\ returned' = returned
        /\ senders' = senders
        /\ completed' = completed
        /\ active_tasks' = active_tasks

\* C19: select_ok races one call per peer and returns the value of the first reply, in
\* completion order, that check_fn classifies as success, regardless of earlier failed or
\* rejected replies and of peers that never reply; after it returns no other peer's
\* outstanding call is polled and no later reply affects the result.
C19_SelectOkFirstSuccess == []C19_FirstSuccessWins /\ [][C19_NothingAfterReturn]_vars

\* select_ok returned a peer's accepted reply after another peer's failure or rejection;
\* a third peer had not answered, its sender was dropped, and its late reply discarded.
C19_Witness ==
    /\ SelectOkReturned
    /\ returned.value.ok
    /\ Len(completed) = 2
    /\ ~SendResults[1].ok
    /\ \E i \in discarded : senders[i].st = "dropped"

\* The server decoded the last request and routed it.
ServedDecoded == served.route # "none"

\* C20 as stated: every decoded request whose message is MessageGet goes to the message
\* manager and never into the hook bus, and every other message goes into the hook bus
\* as GrpcMessageReceived, whatever the envelope's message type code is.
C20_RoutedByMessageAlone ==
    ServedDecoded =>
        served.route = (IF served.msg.kind = "MessageGet" THEN "message_mgr" ELSE "hook_bus")

\* C20 amended: a MessageGet goes to the message manager when the envelope's type code
\* is MESSAGE_TYPE_MESSAGE_GET; under any other type code it goes into the hook bus, as
\* every other message does under every type code.
C20_RoutedByTypeAndMessage ==
    ServedDecoded =>
        served.route = (IF served.typ = MESSAGE_TYPE_MESSAGE_GET /\ served.msg.kind = "MessageGet"
                        THEN "message_mgr" ELSE "hook_bus")

\* A MessageGet received under another type code went into the hook bus and was answered.
C20_Witness ==
    /\ served.msg.kind = "MessageGet"
    /\ served.typ # MESSAGE_TYPE_MESSAGE_GET
    /\ served.route = "hook_bus"
    /\ served.ok

HookDispatched == dispatched.typ # "none"

\* C27: the chain halts as soon as a handler returns proceed = false: no later handler of
\* the type is invoked and that handler's accumulator is the dispatch result; if every
\* handler returns proceed = true, the accumulator the last handler returned is the result.
C27_ChainHaltsOnStop ==
    HookDispatched =>
        LET n == Len(dispatched.invoked)
            whole == chain(handlers, OfType(handlers, dispatched.typ))
        IN  /\ n <= Len(whole)
            /\ dispatched.invoked = SubSeq(whole, 1, n)
            /\ \A k \in 1..n :
                  /\ dispatched.returns[k] =
                        handler_hook(handlers[dispatched.invoked[k]].behaviour,
                                     IF k = 1 THEN "None" ELSE dispatched.returns[k - 1].acc)
                  /\ k < n => dispatched.returns[k].proceed
            /\ dispatched.result = (IF n = 0 THEN "None" ELSE dispatched.returns[n].acc)
            /\ n < Len(whole) => ~dispatched.returns[n].proceed

\* The second of three handlers stopped the chain: the third was not invoked.
C27_Witness ==
    /\ HookDispatched
    /\ Cardinality(OfType(handlers, dispatched.typ)) = 3
    /\ Len(dispatched.invoked) = 2
    /\ ~dispatched.returns[2].proceed
    /\ dispatched.result = "NotAuthorized"

\* Entry j comes before entry i in the chain of their type.
Precedes(j, i) ==
    \/ handlers[j].priority > handlers[i].priority
    \/ handlers[j].priority = handlers[i].priority /\ j < i

\* C28: a handler registered with a higher priority is invoked before one of the same
\* type with a lower priority, in every dispatch; handlers of equal priority are invoked
\* in registration order.
C28_PriorityOrder ==
    HookDispatched =>
        /\ \A a, b \in 1..Len(dispatched.invoked) :
              a < b => Precedes(dispatched.invoked[a], dispatched.invoked[b])
        /\ \A b \in 1..Len(dispatched.invoked), j \in OfType(handlers, dispatched.typ) :
              Precedes(j, dispatched.invoked[b]) =>
                  \E a \in 1..(b - 1) : dispatched.invoked[a] = j

\* The handler registered last, with the highest priority, ran first; the two registered
\* before it with equal priorities followed in registration order.
C28_Witness ==
    /\ HookDispatched
    /\ dispatched.invoked = <<3, 1, 2>>
    /\ handlers[1].priority = handlers[2].priority
    /\ handlers[3].priority > handlers[1].priority

(***************************************************************************)
(* Cluster hook handler properties                                         *)
(***************************************************************************)
ClusterHookReturned == applied.fn = "cluster_hook" /\ applied.phase = "returned"

\* C29: the cluster hook handler never panics: for every Parameter, and for
\* GrpcMessageReceived with any Message variant under the cluster's own type code, it
\* returns a (proceed, accumulator) pair; a failure such as an undecodable Data payload is
\* reported as a MessageReply::Error in the accumulator.
C29_HandlerNeverPanics ==
    ClusterHookReturned =>
        /\ ~applied.out.panicked
        /\ LET in == applied.arg
           IN  (/\ in.param.kind = "GrpcMessageReceived"
                /\ in.param.typ = ClusterMessageType
                /\ in.param.msg.kind = "Data"
                /\ ~in.env.data_decodes)
                   => /\ applied.out.acc.kind = "GrpcMessageReply"
                      /\ applied.out.acc.res.ok
                      /\ applied.out.acc.res.v.kind = "Error"

(***************************************************************************)
(* Placeholder substitution properties                                     *)
(***************************************************************************)
\* The substitution to apply at the head of v, if a recognised placeholder starts there.
PlaceholderAt(v, subs) == {k \in 1..Len(subs) : subs[k].on /\ SubSeq(v, 1, 2) = subs[k].from}

\* One pass over the configured value: each recognised placeholder gives way to its
\* value, and the scan goes on behind the placeholder, never inside what was put in.
RECURSIVE single_pass(_, _)
single_pass(v, subs) ==
    IF Len(v) < 2 THEN v
    ELSE LET at == PlaceholderAt(v, subs)
         IN  IF at # {}
             THEN subs[CHOOSE k \in at : TRUE].to \o single_pass(SubSeq(v, 3, Len(v)), subs)
             ELSE <<Head(v)>> \o single_pass(Tail(v), subs)

\* C30: substitution is a single pass over the configured value: text put in for one
\* placeholder (a username holding %c, %P or %t) is not scanned again and appears
\* verbatim in the request.
C30_SinglePassSubstitution ==
    (applied.fn = "replaces" /\ applied.phase = "returned" /\ applied.out.ok) =>
        applied.out.v = single_pass(applied.arg.v, Substitutions(applied.arg.in))

(***************************************************************************)
(* Session storage properties                                              *)
(***************************************************************************)
\* load_offline_session_infos has returned and the rebuild has not begun.
Scanned == startup.pc \in {"inited", "init_failed"}
\* The map records the scan found with and without a usable BASIC.
ValidKeys == {k \in IdKeys : boot_log.scanned.maps[k].exists
                              /\ boot_log.scanned.maps[k].BASIC.st = "some"}
InvalidKeys == {k \in IdKeys : boot_log.scanned.maps[k].exists
                                /\ boot_log.scanned.maps[k].BASIC.st # "some"}
\* The list records the scan found whose id has no stored-session entry after it.
OrphanLists == {k \in IdKeys : boot_log.scanned.lists[k].exists
                                /\ k \notin InfoKeys(stored_session_infos)}
\* The valid records that share their client id with another valid record.
Duplicates ==
    {k \in ValidKeys : \E k2 \in ValidKeys \ {k} :
        boot_log.scanned.maps[k2].BASIC.v.client_id = boot_log.scanned.maps[k].BASIC.v.client_id}
\* The record of k is in storage and has a stored-session entry.
Kept(k) == storage_db.maps[k].exists /\ k \in InfoKeys(stored_session_infos)
RemovalsSucceed == failing \cap {"map_remove", "list_remove"} = {}

Rebuilt == startup.pc \in {"awaiting", "returned"}
\* The clients with a retained record when the rebuild began, and that record.
RetainedClients == {c \in ClientIds : boot_log.retained[c] # <<>>}
Retained(c) == boot_log.retained[c][1]
\* The Session items the rebuild enqueued for client c.
EnqueuedFor(c) ==
    {i \in 1..Len(boot_log.enqueued) : boot_log.enqueued[i].session.client_id = c}
\* The interval the fitter gives for the record's disconnect reason.
FitterInterval(stored, cfg) ==
    IF stored.disconnect_info.st = "some" /\ stored.disconnect_info.v.mqtt_disconnect.some
    THEN stored.disconnect_info.v.mqtt_disconnect.session_expiry_interval
    ELSE cfg.session_expiry_interval
\* The remaining interval with disconnected_at taken from the disconnect info whenever
\* there is one.
RemainingAsStated(stored, cfg) ==
    FitterInterval(stored, cfg)
        - (now - (IF stored.disconnect_info.st = "some"
                  THEN stored.disconnect_info.v.disconnected_at ELSE stored.last_time))
\* The remaining interval with disconnected_at taken from the disconnect info only when
\* it is positive.
RemainingIfPositive(stored, cfg) ==
    FitterInterval(stored, cfg)
        - (now - (IF stored.disconnect_info.st = "some"
                     /\ stored.disconnect_info.v.disconnected_at > 0
                  THEN stored.disconnect_info.v.disconnected_at ELSE stored.last_time))
BothDeleted(k) == ~storage_db.maps[k].exists /\ ~storage_db.lists[k].exists
\* Exactly one session of client c was enqueued, with expiry interval.
OneEnqueued(c, interval) ==
    /\ Cardinality(EnqueuedFor(c)) = 1
    /\ \A i \in EnqueuedFor(c) : boot_log.enqueued[i].session_expiry_interval = interval

\* C23 as stated: for every retained record the remaining interval is the fitter's minus
\* the time since disconnect_info.disconnected_at, or since last_time without disconnect
\* info; if it is <= 0 both records are deleted and nothing is enqueued, if it is > 0
\* exactly one session is enqueued with it.
C23_ExpiredDeletedElseEnqueued ==
    Rebuilt =>
        \A c \in RetainedClients :
            \A cfg \in listen_cfg_get(Retained(c).basic.lid) :
                IF RemainingAsStated(Retained(c), cfg) <= 0
                THEN BothDeleted(Retained(c).id_key) /\ EnqueuedFor(c) = {}
                ELSE OneEnqueued(c, RemainingAsStated(Retained(c), cfg))

\* C23: a retained record whose listener is not configured is left in storage and gives
\* no session; otherwise the remaining interval is the fitter's minus the time since the
\* disconnect info's disconnected_at if that is positive, else since last_time; if it is
\* <= 0 nothing is enqueued and, where the removals succeed, both records are deleted; if
\* it is > 0 exactly one session is enqueued with it, or none if Session::new or the send
\* fails.
C23_ExpiredDeletedElseEnqueuedIfPossible ==
    Rebuilt =>
        \A c \in RetainedClients :
            LET stored == Retained(c)
                cfgs == listen_cfg_get(stored.basic.lid)
            IN  /\ cfgs = {} =>
                      /\ EnqueuedFor(c) = {}
                      /\ storage_db.maps[stored.id_key] = boot_log.before.maps[stored.id_key]
                      /\ storage_db.lists[stored.id_key] = boot_log.before.lists[stored.id_key]
                /\ \A cfg \in cfgs :
                      IF RemainingIfPositive(stored, cfg) <= 0
                      THEN /\ EnqueuedFor(c) = {}
                           /\ RemovalsSucceed => BothDeleted(stored.id_key)
                      ELSE IF failing \cap {"Session_new", "send"} # {}
                      THEN EnqueuedFor(c) = {}
                      ELSE OneEnqueued(c, RemainingIfPositive(stored, cfg))

\* One rebuild deleted the map and list records of an expired session and enqueued the
\* session of another client with time left.
C23_Witness ==
    /\ startup.pc = "awaiting"
    /\ failing = {}
    /\ \E c \in RetainedClients, cfg \in ListenCfgs :
          /\ cfg.lid = Retained(c).basic.lid
          /\ RemainingIfPositive(Retained(c), cfg) <= 0
          /\ boot_log.before.maps[Retained(c).id_key].exists
          /\ boot_log.before.lists[Retained(c).id_key].exists
          /\ BothDeleted(Retained(c).id_key)
    /\ \E c \in RetainedClients, cfg \in ListenCfgs :
          /\ cfg.lid = Retained(c).basic.lid
          /\ RemainingIfPositive(Retained(c), cfg) > 0
          /\ OneEnqueued(c, RemainingIfPositive(Retained(c), cfg))

\* The BeforeStartup handler has returned.
HandlerReturned == startup.pc = "returned"
\* offline_restart was invoked for every session the rebuild enqueued.
AllRestarted ==
    \A i \in 1..Len(boot_log.enqueued) :
        boot_log.enqueued[i].session.client_id \in boot_log.restarted
\* Every session the rebuild enqueued is in the shared session table.
AllInserted ==
    \A i \in 1..Len(boot_log.enqueued) :
        shared[boot_log.enqueued[i].session.client_id] = boot_log.enqueued[i].session
\* The Done item is behind every Session item of the channel.
DoneIsLast == \A i \in 1..Len(rebuild_rx) : rebuild_rx[i].kind = "Done" => i = Len(rebuild_rx)
\* done_tx is signalled only when the channel is drained and the executor has no task left.
SignalledAfterFlush == startup.done = "sent" => rebuild_rx = <<>> /\ exec_queue = <<>>

RebuiltTwice ==
    startup.run > 1 /\ HandlerReturned /\ boot_log.prev_pc = "returned"
\* The first start found two valid records of one client id.
PrevDuplicates ==
    \E k1 \in IdKeys, k2 \in IdKeys :
        /\ k1 # k2
        /\ \A k \in {k1, k2} : boot_log.prev_scanned.maps[k].exists
                               /\ boot_log.prev_scanned.maps[k].BASIC.st = "some"
        /\ boot_log.prev_scanned.maps[k1].BASIC.v.client_id
              = boot_log.prev_scanned.maps[k2].BASIC.v.client_id
\* No two sessions of the set have the same client id.
OnePerClient(sessions) ==
    \A s1 \in sessions, s2 \in sessions : s1.client_id = s2.client_id => s1 = s2

\* C25: a second start on the storage the first one left, at the same time and in the
\* same environment, yields the live sessions of the first, and each rebuild enqueues at
\* most one session per client id.
C25_RebuildIdempotent ==
    /\ RebuiltTwice => LiveSessions(shared) = boot_log.prev_live
    /\ \A c \in ClientIds : Cardinality(EnqueuedFor(c)) <= 1
    /\ OnePerClient(LiveSessions(shared))

\* Both starts returned and left the same session, after the first one had to choose
\* between two valid records of its client id.
C25_Witness ==
    /\ RebuiltTwice
    /\ PrevDuplicates
    /\ LiveSessions(shared) # {}
    /\ LiveSessions(shared) = boot_log.prev_live

\* The handler returned in the last step.
OfflineHandlerReturned == offline_call.param # "none"
\* A spawned task appended to its list in the last step.
ListWritten == offline_call.write.outcome = "ok" /\ offline_call.write.task.kind = "list"
\* The list the last write went to, as it is now.
WrittenItems == storage_db.lists[offline_call.write.task.id_key].items

\* C26: every persisted list holds at most max_mqueue_len elements; an append to a list
\* that holds max_mqueue_len elements drops the oldest one and keeps the new one; every
\* call of the handler returns (true, acc) with the accumulator it was given, and a write
\* that fails changes nothing of that.
C26_ListBoundedOldestDropped ==
    /\ \A k \in IdKeys :
          Len(storage_db.lists[k].items) <= SessionListenCfg.max_mqueue_len
    /\ ListWritten =>
          WrittenItems =
              IF Len(offline_call.write.old) >= offline_call.write.task.limit
              THEN Append(Tail(offline_call.write.old), offline_call.write.task.item)
              ELSE Append(offline_call.write.old, offline_call.write.task.item)
    /\ OfflineHandlerReturned => offline_call.ret = <<TRUE, offline_call.acc>>
    /\ offline_call.write.outcome = "err" =>
          offline_call.write.old = WrittenItems

\* An append to a full list dropped its oldest element and kept the new one.
C26_Witness ==
    /\ ListWritten
    /\ Len(offline_call.write.old) = SessionListenCfg.max_mqueue_len
    /\ Len(WrittenItems) = SessionListenCfg.max_mqueue_len
    /\ WrittenItems[Len(WrittenItems)] = offline_call.write.task.item
    /\ Head(offline_call.write.old) # Head(WrittenItems)

\* C31: in every persisted list the offline messages stand in the order their
\* OfflineMessage events were handled: an element whose event was handled earlier
\* precedes every element whose event was handled later.
C31_PersistedInDispatchOrder ==
    \A k \in IdKeys :
        \A i \in 1..Len(storage_db.lists[k].items), j \in 1..Len(storage_db.lists[k].items) :
            i < j => storage_db.lists[k].items[i].publish < storage_db.lists[k].items[j].publish

(***************************************************************************)
(* Plugin registry properties, continued                                   *)
(***************************************************************************)
\* The instance of the entry has been constructed: it is present and the deferred
\* constructor is consumed.
Constructed(e) == e.plugin /\ ~e.plugin_f

\* C32: in every state of the registry, every entry that is active is inited, and every
\* entry that is inited holds its constructed instance and no deferred constructor.
C32_ActiveInitedConstructed ==
    \A n \in Names :
        plugins[n] # NoEntry =>
            /\ plugins[n].active => plugins[n].inited
            /\ plugins[n].inited => Constructed(plugins[n])

\* A call on an active entry failed and left it active, inited and constructed.
C32_Witness ==
    \E n \in Names :
        /\ lastOp.op \in {"start", "stop", "load_config"}
        /\ ~lastOp.ok
        /\ lastOp.calls # <<>>
        /\ plugins[n] # NoEntry
        /\ plugins[n].active /\ plugins[n].inited /\ Constructed(plugins[n])

\* C33: a register call that failed left the registry slot of its name as it was before
\* the call.
C33_FailedRegisterKeepsRegistry ==
    (lastOp.op = "register" /\ ~lastOp.ok) => plugins[lastOp.name] = lastOp.before

\* The entry the concurrent calls work on.
SlotEntry == plugins[SlotName]
\* No call is inside a method of the plugin.
SlotQuiet == InPlugin = {}
\* The active flag is what the last completed start() or stop() made it.
ActiveMatchesLast ==
    (SlotQuiet /\ slot_log.last_set # "none") =>
        (SlotEntry.active <=> slot_log.last_set = "active")

\* C34 as stated: in every interleaving of start and stop calls on one name init is
\* invoked at most once, every invocation of start is a transition to active, and the
\* active flag matches the last plugin call that completed.
C34_InitOnceStartOncePerActivation ==
    /\ SlotEntry.initCalls <= 1
    /\ slot_log.starts <= slot_log.activations + Cardinality(InPlugin)
    /\ ActiveMatchesLast

\* C34: in every interleaving at most one call holds the entry, init and start are never
\* entered while another call is inside the plugin, init returns Ok at most once and is
\* not invoked again after that, every transition to active follows its own invocation of
\* start, and the active flag matches the last start or stop that completed without error;
\* an init or start that returned Err may be invoked again by a later call.
C34_SerializedBySlot ==
    /\ Cardinality(Holders) <= 1
    /\ ~slot_log.overlapped
    /\ slot_log.inits_ok <= 1
    /\ SlotEntry.inited => \A c \in CallerIds : callers[c].pc # "in_init"
    /\ slot_log.activations <= slot_log.starts
    /\ ActiveMatchesLast

\* Three calls have returned: a start whose init failed, a start that succeeded after a
\* second init, and a stop that stopped the plugin.
C34_Witness ==
    /\ \A c \in CallerIds : callers[c].pc = "done"
    /\ \E c1 \in CallerIds, c2 \in CallerIds, c3 \in CallerIds :
          /\ callers[c1] = Caller("start", "done", "err")
          /\ callers[c2] = Caller("start", "done", "ok")
          /\ callers[c3] = Caller("stop", "done", "true")
    /\ SlotEntry.initCalls = 2
    /\ slot_log.inits_ok = 1
    /\ ~SlotEntry.active /\ slot_log.last_set = "inactive"

(***************************************************************************)
(* Auth backends, continued                                                *)
(***************************************************************************)
\* An auth-http ClientAuthenticate, ClientSubscribeCheckAcl or
\* MessagePublishCheckAcl handler returned on the backend's verdict Ignore
\* (from the endpoint or from the ACL cache).
HttpYielded ==
    /\ authCall.phase = "returned"
    /\ authCall.in.op \in {"HttpClientAuthenticate", "HttpClientSubscribeCheckAcl",
                           "HttpMessagePublishCheckAcl"}
    /\ authCall.out.verdict = Ignore

\* C35: when the HTTP backend's own verdict is Ignore, the handler yields to
\* the next handler with the accumulator it received: a result set by an
\* earlier handler is not erased.
C35_IgnoreKeepsAccumulator ==
    HttpYielded => authCall.out.ret = Return(TRUE, authCall.in.acc)

\* The verdict string a success response carries: the plain-text body, the
\* JSON string, or the JSON object's "result" member ("<none>" when it has none).
VerdictString(resp) ==
    IF is_json_content_type(resp.content_type)
    THEN CASE resp.body.kind = "json_object" /\ resp.body.result # <<>> -> resp.body.result[1]
           [] resp.body.kind = "json_string" -> resp.body.s
           [] OTHER -> "<none>"
    ELSE body_text(resp.body)

\* C36: the HTTP backend produces an Allow verdict only when the response's
\* verdict string is exactly "allow": a success response whose plain-text body,
\* JSON string or JSON result field is any other value never results in Allow.
C36_AllowOnlyOnAllowString ==
    (/\ RequestMade
     /\ authCall.in.outcome.kind = "response"
     /\ authCall.in.outcome.status_success
     /\ authCall.out.verdict.tag = "Allow")
        => VerdictString(authCall.in.outcome) = "allow"

\* The auth-http ClientAuthenticate handler committed AuthResult::Allow on a
\* JSON object response that carries expire_at.
AllowWithExpireAt ==
    /\ AuthenticateDecided
    /\ authCall.in.outcome.kind = "response"
    /\ authCall.in.outcome.status_success
    /\ is_json_content_type(authCall.in.outcome.content_type)
    /\ authCall.in.outcome.body.kind = "json_object"
    /\ authCall.in.outcome.body.expire_at # <<>>
    /\ authCall.out.verdict.tag = "Allow"
    /\ authCall.out.ret.acc.tag = "AuthResult::Allow"

\* C37: when an HTTP auth response is allow and carries expire_at, the
\* committed AuthResult::Allow carries an AuthInfo whose expire_at is that
\* value, whether or not the response also carries an acl array.
C37_AllowCarriesExpireAt ==
    AllowWithExpireAt =>
        /\ authCall.out.ret.acc.auth_info # None
        /\ authCall.out.ret.acc.auth_info.expire_at = authCall.in.outcome.body.expire_at

\* An auth-http or auth-jwt ClientAuthenticate handler returned Allow carrying
\* an AuthInfo.
CommittedAllowWithInfo ==
    /\ authCall.phase = "returned"
    /\ authCall.in.op \in {"HttpClientAuthenticate", "JwtClientAuthenticate"}
    /\ authCall.out.ret.acc # authCall.in.acc
    /\ authCall.out.ret.acc # None
    /\ authCall.out.ret.acc.tag = "AuthResult::Allow"
    /\ authCall.out.ret.acc.auth_info # None

\* C38: a ClientAuthenticate dispatch never commits Allow carrying an AuthInfo
\* that is already expired at that moment, for the HTTP backend and for the JWT
\* backend, whether or not exp validation is enabled.
C38_NeverCommitsExpiredAllow ==
    CommittedAllowWithInfo => ~is_expired(authCall.out.ret.acc.auth_info, authCall.t)

(***************************************************************************)
(* Raft proposal properties                                                *)
(***************************************************************************)
\* The places of a proposal in the raft mailbox.
Delivered(kind, id) ==
    {i \in DOMAIN raft_mailbox : raft_mailbox[i] = Proposal(kind, id)}
\* A Disconnected proposal was issued for the session: a task carries it.
Issued(kind, id) ==
    \E i \in DOMAIN raft_tasks : raft_tasks[i].msg = Proposal(kind, id)

\* C39: for one session, the Disconnected proposal issued on ClientDisconnected
\* is delivered to the raft mailbox before the SessionTerminated proposal
\* issued on a later SessionTerminated, under any scheduling and retry of the
\* spawned tasks; a ClientDisconnected whose reason is a kick issues no
\* Disconnected proposal.
C39_DisconnectedBeforeTerminated ==
    \A id \in RaftIds :
        /\ (Issued("Disconnected", id) /\ Delivered("SessionTerminated", id) # {}) =>
              \E i \in Delivered("Disconnected", id) :
                  \A j \in Delivered("SessionTerminated", id) : i < j
        /\ (raft_sessions[id].pc # "connected" /\ raft_sessions[id].kicked) =>
              ~Issued("Disconnected", id)

(***************************************************************************)
(* Broadcast termination                                                   *)
(***************************************************************************)
\* What sender i gives select_ok: its result once it returned, or the result
\* its outcome will give when it is polled.
SendResultOf(i) ==
    send(IF senders[i].st = "ready" THEN send_message_result(senders[i].wire)
         ELSE senders[i].ret, broadcast.accept)

\* select_ok was called and the call of every peer has failed or has a reply
\* that check_fn rejects.
AllFailing ==
    /\ broadcast.call = "select_ok"
    /\ \A i \in Indices(senders) :
          senders[i].st \in {"ready", "done"} /\ ~SendResultOf(i).ok

SelectOkReturnedErr == SelectOkReturned /\ ~returned.value.ok

\* Once every sender returned a failure or a rejected reply, select_ok has
\* returned an error.
ErrorWhenAllFailed ==
    (AllFailing /\ \A i \in Indices(senders) : senders[i].st = "done")
        => SelectOkReturnedErr

\* C40: select_ok terminates with an error when every peer's call fails or
\* has its reply rejected by check_fn; when a timeout is configured it returns
\* even if some peer never replies; each peer is sent the request exactly once
\* per broadcast (none when the request does not serialise).
C40_SelectOkTerminates ==
    /\ []ErrorWhenAllFailed
    /\ AllFailing ~> SelectOkReturnedErr
    /\ (broadcast.call = "select_ok" /\ broadcast.timeout) ~> returned.done
    /\ [](broadcast.call = "select_ok" => SameRequestToEveryPeer)

\* select_ok with a timeout returned an error: one peer's reply was rejected by
\* check_fn, another peer never replied and its call ended with the timeout,
\* and each of them had been sent the request once.
C40_Witness ==
    /\ SelectOkReturnedErr
    /\ broadcast.timeout
    /\ Len(senders) >= 2
    /\ \E i, j \in Indices(senders) :
          /\ senders[i].ret = Err("timeout")
          /\ senders[j].ret.ok /\ ~SendResultOf(j).ok
    /\ \A i \in Indices(senders) :
          mailed[broadcast.grpc_clients[i]]
              = <<Message_encode(broadcast.msg, broadcast.msg_type)>>

====
